---- MODULE Spec2Model ----
(***************************************************************************)
(* A model of the sniproxy tunnel engine (internal/sniproxy): the accept   *)
(* loops, the per-connection handler (peek, rule check, dial, tunnel) and  *)
(* the process-wide session id counter.                                    *)
(*                                                                         *)
(* Strings are sequences of one-character strings, so that the host/port   *)
(* splitting and the wildcard matching are computed as the code computes   *)
(* them.  Bytes on the wire are small integers.                            *)
(***************************************************************************)
EXTENDS Integers, Sequences, FiniteSets, TLC

(***************************************************************************)
(* Bounds of the model.                                                    *)
(***************************************************************************)
\* Number of connections the accept loops hand to handlers in one behaviour.
MaxSessions == 2
\* Longest byte stream a peer sends in one direction.
MaxBytes == 2
\* Number of leading bytes of a client stream that make up the ClientHello
\* or the HTTP request head.
HelloLen == 1
\* The longest string and pattern given to MatchWildcards.
MaxPatLen == 2
\* The most bytes the proxy sends on a connection readResponse reads.
MaxStream == 6

(***************************************************************************)
(* Program constants.                                                      *)
(***************************************************************************)
remotePortPlain == 80
remotePortTLS == 443
\* strconv.ParseUint(portStr, 10, 16): the bit size of a port.
PortBits == 16

(***************************************************************************)
(* Strings.                                                                *)
(***************************************************************************)
Digits == <<"0", "1", "2", "3", "4", "5", "6", "7", "8", "9">>

IsDigit(c) == \E i \in 1..10 : Digits[i] = c

DigitVal(c) == (CHOOSE i \in 1..10 : Digits[i] = c) - 1

\* strings.IndexByte: the first position of c in s, 0 when absent.
IndexByte(s, c) ==
  IF \E i \in 1..Len(s) : s[i] = c
    THEN CHOOSE i \in 1..Len(s) : s[i] = c /\ \A j \in 1..(i - 1) : s[j] # c
    ELSE 0

\* The last position of c in s, 0 when absent.
LastIndexByte(s, c) ==
  IF \E i \in 1..Len(s) : s[i] = c
    THEN CHOOSE i \in 1..Len(s) : s[i] = c /\ \A j \in (i + 1)..Len(s) : s[j] # c
    ELSE 0

Contains(s, c) == IndexByte(s, c) # 0

\* strconv.Itoa for a natural number.
RECURSIVE Itoa(_)
Itoa(n) == IF n < 10 THEN <<Digits[n + 1]>>
           ELSE Itoa(n \div 10) \o <<Digits[(n % 10) + 1]>>

\* strconv.ParseUint(s, 10, bits): [ok, val]; fails on the empty string, on
\* a non-digit and on a value that does not fit the bit size.
RECURSIVE DecVal(_)
DecVal(s) == IF s = <<>> THEN 0
             ELSE DecVal(SubSeq(s, 1, Len(s) - 1)) * 10 + DigitVal(s[Len(s)])

ParseUint(s, bits) ==
  IF s = <<>> \/ \E i \in 1..Len(s) : ~IsDigit(s[i])
    THEN [ok |-> FALSE, val |-> 0]
    ELSE IF DecVal(s) >= 2 ^ bits
      THEN [ok |-> FALSE, val |-> 0]
      ELSE [ok |-> TRUE, val |-> DecVal(s)]

\* strings.ToLower on ASCII letters.
UpperLetters ==
  <<"A", "B", "C", "D", "E", "F", "G", "H", "I", "J", "K", "L", "M",
    "N", "O", "P", "Q", "R", "S", "T", "U", "V", "W", "X", "Y", "Z">>

LowerLetters ==
  <<"a", "b", "c", "d", "e", "f", "g", "h", "i", "j", "k", "l", "m",
    "n", "o", "p", "q", "r", "s", "t", "u", "v", "w", "x", "y", "z">>

IsUpper(c) == \E i \in 1..Len(UpperLetters) : UpperLetters[i] = c

ToLowerChar(c) ==
  IF IsUpper(c)
    THEN LowerLetters[CHOOSE i \in 1..Len(UpperLetters) : UpperLetters[i] = c]
    ELSE c

ToLower(s) == [i \in 1..Len(s) |-> ToLowerChar(s[i])]

\* strings.HasSuffix(s, ".")
HasSuffixDot(s) == s # <<>> /\ s[Len(s)] = "."

\* strings.TrimSuffix(s, "."): one trailing dot is removed.
TrimSuffixDot(s) == IF HasSuffixDot(s) THEN SubSeq(s, 1, Len(s) - 1) ELSE s

\* strings.Trim(s, "[]")
RECURSIVE TrimBrackets(_)
TrimBrackets(s) ==
  IF s = <<>> THEN s
  ELSE IF s[1] \in {"[", "]"} THEN TrimBrackets(Tail(s))
  ELSE IF s[Len(s)] \in {"[", "]"} THEN TrimBrackets(SubSeq(s, 1, Len(s) - 1))
  ELSE s

(***************************************************************************)
(* net.SplitHostPort: [err, host, port] with port still a string.          *)
(***************************************************************************)
NetSplitFail == [err |-> TRUE, host |-> <<>>, port |-> <<>>]

NetSplitHostPort(hostport) ==
  LET i == LastIndexByte(hostport, ":")
      n == Len(hostport)
  IN IF i = 0 THEN NetSplitFail
     ELSE IF hostport[1] = "["
       THEN LET end == IndexByte(hostport, "]")
            IN IF end = 0 \/ end = n \/ end + 1 # i THEN NetSplitFail
               ELSE IF Contains(SubSeq(hostport, 2, n), "[")
                       \/ Contains(SubSeq(hostport, end + 1, n), "]")
                 THEN NetSplitFail
                 ELSE [err |-> FALSE, host |-> SubSeq(hostport, 2, end - 1),
                       port |-> SubSeq(hostport, i + 1, n)]
       ELSE IF Contains(SubSeq(hostport, 1, i - 1), ":") THEN NetSplitFail
            ELSE IF Contains(hostport, "[") \/ Contains(hostport, "]")
              THEN NetSplitFail
              ELSE [err |-> FALSE, host |-> SubSeq(hostport, 1, i - 1),
                    port |-> SubSeq(hostport, i + 1, n)]

(***************************************************************************)
(* netutil.SplitHostPort: net.SplitHostPort, then the port parsed as a     *)
(* 16-bit unsigned number.  [err, host, port].                             *)
(***************************************************************************)
SplitHostPort(hostport) ==
  LET r == NetSplitHostPort(hostport)
      p == ParseUint(r.port, PortBits)
  IN IF r.err THEN [err |-> TRUE, host |-> <<>>, port |-> 0]
     ELSE IF ~p.ok THEN [err |-> TRUE, host |-> <<>>, port |-> 0]
     ELSE [err |-> FALSE, host |-> r.host, port |-> p.val]

(***************************************************************************)
(* netutil.JoinHostPort: brackets trimmed from the host, then              *)
(* net.JoinHostPort, which brackets a host that contains a colon.          *)
(***************************************************************************)
JoinHostPort(host, port) ==
  LET h == TrimBrackets(host)
  IN IF Contains(h, ":") THEN <<"[">> \o h \o <<"]", ":">> \o Itoa(port)
     ELSE h \o <<":">> \o Itoa(port)

(***************************************************************************)
(* wildcard.MatchSimple(pattern, name): '*' matches any run of characters, *)
(* '?' consumes one character; the empty pattern matches only the empty    *)
(* name.                                                                   *)
(***************************************************************************)
RECURSIVE deepMatchRune(_, _)
deepMatchRune(str, pattern) ==
  IF pattern = <<>> THEN str = <<>>
  ELSE IF pattern[1] = "*"
    THEN deepMatchRune(str, Tail(pattern))
         \/ (str # <<>> /\ deepMatchRune(Tail(str), pattern))
  ELSE IF pattern[1] = "?"
    THEN str # <<>> /\ deepMatchRune(Tail(str), Tail(pattern))
  ELSE IF str = <<>> \/ str[1] # pattern[1] THEN FALSE
  ELSE deepMatchRune(Tail(str), Tail(pattern))

MatchSimple(pattern, name) ==
  IF pattern = <<>> THEN name = pattern
  ELSE IF pattern = <<"*">> THEN TRUE
  ELSE deepMatchRune(name, pattern)

(***************************************************************************)
(* Inputs: the names a client may present, the rule sets of the process    *)
(* and the workloads (how many clients connect, how much they send).       *)
(***************************************************************************)
\* Raw names as the peek returns them (SNI or Host header).
PlainNames == {<<"a">>, <<"b">>, <<"c">>, <<"B">>, <<"b", ".">>}

PortNames ==
  { <<>>,
    <<"a", ":", "8">>,
    <<"b", ":", "8", "0">>,
    <<"c", ":">>,
    <<"a", ":", "6", "5", "5", "3", "6">>,
    <<"[", "a", "]", ":", "8">> }

Names == PlainNames \cup PortNames

\* The configurations New may be given: forward proxy set or not, the
\* forward rules and the block rules.
Configs ==
  { [proxyDialer |-> FALSE, forwardRules |-> <<>>, blockRules |-> <<>>,
     DropRules |-> << <<"a">> >>],
    [proxyDialer |-> FALSE, forwardRules |-> << <<"a">> >>,
     blockRules |-> << <<"b">> >>, DropRules |-> <<>>],
    [proxyDialer |-> TRUE, forwardRules |-> <<>>, blockRules |-> << <<"b">> >>,
     DropRules |-> <<>>],
    [proxyDialer |-> TRUE, forwardRules |-> << <<"a">>, <<"b", "*">> >>,
     blockRules |-> << <<"x">>, <<"b">> >>, DropRules |-> << <<"c">> >>] }

\* The environments explored.  Either one client that may present every
\* name, with streams of up to MaxBytes bytes in both directions, a backend
\* with or without CloseWrite and faults (malformed heads, timeouts, failed
\* dials, I/O errors); or MaxSessions concurrent clients that each send one
\* well-formed head to a fault-free upstream; or two such clients while
\* Accept may fail, the proxy may be closed and the process may end.
Workloads ==
  { [clients |-> 1, lens |-> 0..MaxBytes, upLens |-> 0..MaxBytes,
     names |-> Names, cws |-> BOOLEAN, faults |-> TRUE, life |-> FALSE],
    [clients |-> MaxSessions, lens |-> {HelloLen}, upLens |-> {0},
     names |-> {<<"a">>}, cws |-> {TRUE}, faults |-> FALSE, life |-> FALSE],
    [clients |-> 2, lens |-> {HelloLen}, upLens |-> {0},
     names |-> {<<"a">>}, cws |-> {TRUE}, faults |-> FALSE, life |-> TRUE] }

\* The byte stream of length n a peer sends: byte i is the number i, so a
\* dropped, duplicated, reordered or foreign byte shows.
Stream(n) == [i \in 1..n |-> i]

\* The TLS alert record the sniffing handshake tries to send.
AlertBytes == <<21>>

Sessions == 1..MaxSessions
Dirs == {"c2u", "u2c"}

IsPrefix(a, b) == Len(a) <= Len(b) /\ a = SubSeq(b, 1, Len(a))

(***************************************************************************)
(* State.                                                                  *)
(***************************************************************************)
VARIABLES
  work,          \* the workload of this behaviour
  proxyDialer,   \* SNIProxy.proxyDialer is set (non-nil)
  forwardRules,  \* SNIProxy.forwardRules
  blockRules,    \* SNIProxy.blockRules
  lastID,        \* the process-wide session id counter
  issued,        \* the ids NewSNIContext returned, in the order of issue
  pc,            \* position of each connection handler
  plainHTTP,     \* the listener the connection was accepted on
  request,       \* what the head of the client's stream encodes
  clientSent,    \* the whole byte stream the client sends
  sockRead,      \* number of bytes read off the client socket
  peekedBytes,   \* the tee buffer: filled by the peek, drained by the replay
  captured,      \* the content of the tee buffer when the peek returned
  serverName,    \* the name the peek returned
  ctx,           \* the SNIContext of the session
  dialVia,       \* the dialer used for the upstream connection
  conn,          \* the client and backend sockets of the session
  upSent,        \* the whole byte stream the upstream sends
  upRead,        \* number of bytes read off the backend socket
  toUpstream,    \* the bytes written to the backend socket
  toClient,      \* the bytes written to the client socket
  dir,           \* the two copy goroutines of the session
  connDropRules, \* Config.DropRules, as given to New
  listener,      \* sniListener (FALSE) and plainListener (TRUE)
  loop,          \* the accept loop of each listener
  nilHandlers,   \* handlers each loop started on a nil connection
  process        \* the process: "running", "panicked" or "exited"

VARIABLES
  dropRules,       \* DNSProxy.dropRules
  redirectRules,   \* DNSProxy.redirectRules
  redirectIPv4To,  \* DNSProxy.redirectIPv4To
  redirectIPv6To,  \* DNSProxy.redirectIPv6To
  dnsPc,           \* position of the DNS server in the query it serves
  served,          \* number of queries served so far
  Req,             \* DNSContext.Req of the query being served
  Res,             \* DNSContext.Res of the query being served
  forwarded,       \* the requests sent to the upstream for the query
  upstreamRes,     \* what the upstream answered for the query
  sent             \* the responses written to the client for the query

VARIABLES
  hpdPc,           \* position of DialContext
  sock,            \* the socket to the proxy: "none", "open" or "closed"
  ctxDone,         \* the context passed to DialContext is cancelled
  cancelledAt,     \* where DialContext was when the context was cancelled
  stopGuardEvent,  \* the channel stopGuardEvent is closed
  stopGuardOnce,   \* stopGuardOnce has run its function
  stopCloses,      \* number of times close(stopGuardEvent) was executed
  guard,           \* position of the guard goroutine
  guardErr,        \* the channel guardErr: "empty", "closed" or "err"
  proxyResp,       \* the response head the proxy sends
  respBuf,         \* number of bytes readResponse has stored in respBuf
  reqWritten,      \* the CONNECT request was written to the socket
  ret              \* what DialContext returned: "none", "conn" or "nil"

VARIABLES
  shPc,             \* position of a rate-limited tunnel (one copy direction)
  now,              \* the clock, in ticks
  period,           \* ticks per byte: 1 / bandwidthRate; 0 when no rate is set
  created,          \* the time SetRateLimit created the limiters
  readerLim,        \* Reader.limiter
  writerLim,        \* Writer.limiter
  srcLeft,          \* bytes the source has yet to deliver
  chunk,            \* bytes of the buffer io.Copy holds
  moved,            \* bytes written to the destination
  waitUntil,        \* the time the pending WaitN returns
  copyErr,          \* the error io.Copy returned
  signalled,        \* the process received SIGINT or SIGTERM
  signalledInWait   \* ... while a WaitN was pending

VARIABLES
  wdPc,       \* position of wrappedDialer.DialContext
  wdGo,       \* position of the goroutine it starts
  wdConn,     \* the variable conn the two share: "nil" or "conn"
  wdErr,      \* the variable err the two share: "nil", "dial" or ctx.Err()
  wdDone,     \* the channel done is closed
  wdCtxErr,   \* ctx.Err(): "nil" until the context is done
  wdCaller,   \* what the caller of DialContext does with the result
  wdSock,     \* the socket wd.d.Dial opens: "none", "open" or "closed"
  wdRet       \* what DialContext returned

VARIABLES
  rPc,       \* position of a call of readResponse
  rStream,   \* the bytes the proxy sends on the connection r
  rPos,      \* how many of them were read from the connection
  rBuf,      \* respBuf
  rDecodes,  \* http.ReadResponse accepts the head
  rRet       \* what readResponse returned: "none", "resp" or "err"

VARIABLES
  mPc,        \* position of a call of filter.MatchWildcards
  mStr,       \* its first argument, str
  mWildcards, \* its second argument, wildcards
  mOk         \* its result, ok

VARIABLES
  startPc,   \* position of cmd.run
  options,   \* the command-line options
  startCfg,  \* the dnsproxy.Config toDNSProxyConfig returned
  bound,     \* the listeners bound so far
  startErr,  \* SNIProxy.Start returned an error
  loops      \* the listeners whose accept loop was started

sniVars == <<work, proxyDialer, forwardRules, blockRules, lastID, issued, pc,
             plainHTTP, request, clientSent, sockRead, peekedBytes, captured,
             serverName, ctx, dialVia, conn, upSent, upRead, toUpstream,
             toClient, dir, connDropRules, listener, loop, nilHandlers,
             process>>

lifeVars == <<listener, loop, nilHandlers, process>>

dnsVars == <<dropRules, redirectRules, redirectIPv4To, redirectIPv6To, dnsPc,
             served, Req, Res, forwarded, upstreamRes, sent>>

hpdVars == <<hpdPc, sock, ctxDone, cancelledAt, stopGuardEvent,
             stopGuardOnce, stopCloses, guard, guardErr, proxyResp, respBuf,
             reqWritten, ret>>

\* The stop event of the guard and the sync.Once around its closing.
stopVars == <<stopGuardEvent, stopGuardOnce, stopCloses>>

shapeVars == <<shPc, now, period, created, readerLim, writerLim, srcLeft,
               chunk, moved, waitUntil, copyErr, signalled, signalledInWait>>

startVars == <<startPc, options, startCfg, bound, startErr, loops>>
matchVars == <<mPc, mStr, mWildcards, mOk>>

readVars == <<rPc, rStream, rPos, rBuf, rDecodes, rRet>>

wdVars == <<wdPc, wdGo, wdConn, wdErr, wdDone, wdCtxErr, wdCaller, wdSock,
           wdRet>>

vars == <<sniVars, dnsVars, hpdVars, shapeVars, startVars, matchVars,
    readVars, wdVars>>

\* The variables of the components other than the tunnel engine, and those
\* other than each of the further components.
otherVars == <<dnsVars, hpdVars, shapeVars, startVars, matchVars, readVars,
    wdVars>>
notDNS == <<sniVars, hpdVars, shapeVars, startVars, matchVars, readVars,
    wdVars>>
notHPD == <<sniVars, dnsVars, shapeVars, startVars, matchVars, readVars,
    wdVars>>
notShape == <<sniVars, dnsVars, hpdVars, startVars, matchVars, readVars,
    wdVars>>
notStart == <<sniVars, dnsVars, hpdVars, shapeVars, matchVars, readVars,
    wdVars>>
notMatch == <<sniVars, dnsVars, hpdVars, shapeVars, startVars, readVars,
    wdVars>>
notRead == <<sniVars, dnsVars, hpdVars, shapeVars, startVars, matchVars,
    wdVars>>
notWd == <<sniVars, dnsVars, hpdVars, shapeVars, startVars, matchVars,
    readVars>>

cfgVars == <<work, proxyDialer, forwardRules, blockRules, connDropRules>>

NoCtx == [ID |-> 0, RemoteHost |-> <<>>, RemoteAddr |-> <<>>]
NoConn == [st |-> "none", cw |-> FALSE]
NoRequest == [ok |-> FALSE, name |-> <<>>]

InitSNI ==
  /\ work \in Workloads
  /\ \E c \in Configs :
       /\ proxyDialer = c.proxyDialer
       /\ forwardRules = c.forwardRules
       /\ blockRules = c.blockRules
       /\ connDropRules = c.DropRules
  /\ lastID = 0
  /\ issued = <<>>
  /\ pc = [s \in Sessions |-> "idle"]
  /\ plainHTTP = [s \in Sessions |-> FALSE]
  /\ request = [s \in Sessions |-> NoRequest]
  /\ clientSent = [s \in Sessions |-> <<>>]
  /\ sockRead = [s \in Sessions |-> 0]
  /\ peekedBytes = [s \in Sessions |-> <<>>]
  /\ captured = [s \in Sessions |-> <<>>]
  /\ serverName = [s \in Sessions |-> <<>>]
  /\ ctx = [s \in Sessions |-> NoCtx]
  /\ dialVia = [s \in Sessions |-> "none"]
  /\ conn = [s \in Sessions |-> [client |-> NoConn, backend |-> NoConn]]
  /\ upSent = [s \in Sessions |-> <<>>]
  /\ upRead = [s \in Sessions |-> 0]
  /\ toUpstream = [s \in Sessions |-> <<>>]
  /\ toClient = [s \in Sessions |-> <<>>]
  /\ dir = [s \in Sessions |-> [d \in Dirs |-> "idle"]]
  /\ listener = [l \in BOOLEAN |-> "open"]
  /\ loop = [l \in BOOLEAN |-> "accepting"]
  /\ nilHandlers = [l \in BOOLEAN |-> 0]
  /\ process = "running"

\* The tunnel engine with nothing to do: one client, no rules, no proxy.
IdleSNI ==
  /\ InitSNI
  /\ work.clients = 1 /\ ~work.life
  /\ ~proxyDialer
  /\ forwardRules = <<>>
  /\ blockRules = <<>>

(***************************************************************************)
(* The DNS proxy: its messages, its configurations and its initial state.  *)
(***************************************************************************)
MaxQueries == 2

TypeA == 1
TypeMX == 15
TypeAAAA == 28
ClassINET == 1
defaultTTL == 60

\* A nil net.IP.
NilIP == ""

\* A nil *dns.Msg.
NilMsg == [Response |-> FALSE, Rcode |-> "nil", Question |-> <<>>,
           Answer |-> <<>>]

\* The queries a client sends: one question each, for a name as it comes
\* from the wire, with its trailing dot.
Queries ==
  { [Response |-> FALSE, Rcode |-> "NOERROR",
     Question |-> << [Name |-> n, Qtype |-> t, Qclass |-> ClassINET] >>,
     Answer |-> <<>>] :
       n \in {<<"a", ".">>, <<"A", ".">>, <<"b", ".">>, <<"c", ".">>},
       t \in {TypeA, TypeAAAA, TypeMX} }

\* The configurations NewDNSProxy is given; at least one redirection
\* address is set in each.
DNSConfigs ==
  { [dropRules |-> <<>>, redirectRules |-> << <<"*">> >>,
     redirectIPv4To |-> "192.0.2.1", redirectIPv6To |-> "2001:db8::1"],
    [dropRules |-> << <<"a">> >>, redirectRules |-> << <<"*">> >>,
     redirectIPv4To |-> "192.0.2.1", redirectIPv6To |-> NilIP],
    [dropRules |-> << <<"b">> >>, redirectRules |-> << <<"a">> >>,
     redirectIPv4To |-> NilIP, redirectIPv6To |-> "2001:db8::1"],
    [dropRules |-> << <<"x">>, <<"c">> >>,
     redirectRules |-> << <<"b">>, <<"a">> >>,
     redirectIPv4To |-> "192.0.2.1", redirectIPv6To |-> "2001:db8::1"] }

\* What the upstream resolver may answer to a request: an answer with one
\* record of its own, or a name error.
UpstreamAnswers(req) ==
  { [Response |-> TRUE, Rcode |-> "NOERROR", Question |-> req.Question,
     Answer |-> << [Hdr |-> [Name |-> req.Question[1].Name,
                             Rrtype |-> req.Question[1].Qtype,
                             Class |-> ClassINET, Ttl |-> 300],
                    Addr |-> "198.51.100.7"] >>],
    [Response |-> TRUE, Rcode |-> "NXDOMAIN", Question |-> req.Question,
     Answer |-> <<>>] }

\* The server failure the proxy library answers with when the upstream
\* exchange fails.
ServFail(req) ==
  [Response |-> TRUE, Rcode |-> "SERVFAIL", Question |-> req.Question,
   Answer |-> <<>>]

\* NewDNSProxy: the configuration is copied into the DNSProxy and the server
\* waits for its first query.
InitDNS ==
  /\ \E c \in DNSConfigs :
       /\ dropRules = c.dropRules
       /\ redirectRules = c.redirectRules
       /\ redirectIPv4To = c.redirectIPv4To
       /\ redirectIPv6To = c.redirectIPv6To
  /\ dnsPc = "idle"
  /\ served = 0
  /\ Req = NilMsg
  /\ Res = NilMsg
  /\ forwarded = <<>>
  /\ upstreamRes = NilMsg
  /\ sent = <<>>

\* The DNS proxy not started.
IdleDNS ==
  /\ dropRules = <<>>
  /\ redirectRules = <<>>
  /\ redirectIPv4To = NilIP
  /\ redirectIPv6To = NilIP
  /\ dnsPc = "off"
  /\ served = 0
  /\ Req = NilMsg
  /\ Res = NilMsg
  /\ forwarded = <<>>
  /\ upstreamRes = NilMsg
  /\ sent = <<>>

(***************************************************************************)
(* The HTTP CONNECT dialer: the proxy's responses and the initial state.   *)
(***************************************************************************)
RespLen == 2

StatusOK == 200

Networks == {"tcp", "tcp4", "tcp6", "udp"}

NoResp == [StatusCode |-> 0, wellFormed |-> FALSE]

\* The response heads a proxy may send, RespLen bytes each: a status line
\* with a status code, or bytes http.ReadResponse cannot decode.
ProxyResponses == [StatusCode : {StatusOK, 407, 502}, wellFormed : BOOLEAN]

\* DialContext is called: nothing is dialed yet.  The caller may pass a
\* context that is cancelled already.
InitHPD ==
  /\ hpdPc = "called"
  /\ sock = "none"
  /\ ctxDone \in BOOLEAN
  /\ cancelledAt = IF ctxDone THEN "before" ELSE "never"
  /\ stopGuardEvent = FALSE
  /\ stopGuardOnce = FALSE
  /\ stopCloses = 0
  /\ guard = "none"
  /\ guardErr = "empty"
  /\ proxyResp = NoResp
  /\ respBuf = 0
  /\ reqWritten = FALSE
  /\ ret = "none"

\* DialContext not called.
IdleHPD ==
  /\ hpdPc = "off"
  /\ sock = "none"
  /\ ctxDone = FALSE
  /\ cancelledAt = "never"
  /\ stopGuardEvent = FALSE
  /\ stopGuardOnce = FALSE
  /\ stopCloses = 0
  /\ guard = "none"
  /\ guardErr = "empty"
  /\ proxyResp = NoResp
  /\ respBuf = 0
  /\ reqWritten = FALSE
  /\ ret = "none"

(***************************************************************************)
(* Rate-limited copying.  Time is counted in ticks and a rate is given by  *)
(* its period, the whole number of ticks per byte, so that every duration  *)
(* the limiter computes is a whole number of ticks.  The limiter's tokens  *)
(* are kept as credit: tokens times the period.                            *)
(***************************************************************************)
MaxTime == 7
MaxCopy == 3
BufSize == 2

burstLimit == 1000 * 1000 * 1000

\* The rates explored: none, one byte per tick, one byte per two ticks.
Periods == {0, 1, 2}

\* A nil *rate.Limiter.
NilLimiter == [set |-> FALSE, fresh |-> FALSE, credit |-> 0, last |-> 0]

\* A tunnel about to start: tunnel is entered with some bytes to come from
\* the source and the configured rate.
InitShape ==
  /\ shPc = "start"
  /\ now = 0
  /\ period \in Periods
  /\ created = 0
  /\ readerLim = NilLimiter
  /\ writerLim = NilLimiter
  /\ srcLeft \in 0..MaxCopy
  /\ chunk = 0
  /\ moved = 0
  /\ waitUntil = 0
  /\ copyErr = "none"
  /\ signalled = FALSE
  /\ signalledInWait = FALSE

\* No tunnel observed.
IdleShape ==
  /\ shPc = "off"
  /\ now = 0
  /\ period = 0
  /\ created = 0
  /\ readerLim = NilLimiter
  /\ writerLim = NilLimiter
  /\ srcLeft = 0
  /\ chunk = 0
  /\ moved = 0
  /\ waitUntil = 0
  /\ copyErr = "none"
  /\ signalled = FALSE
  /\ signalledInWait = FALSE

(***************************************************************************)
(* The start of the program: cmd.run up to the point both proxies run.     *)
(***************************************************************************)

\* The literals given where an IP address is expected: none, an IPv4
\* address, an IPv6 address, something else.
IPLiterals == {"", "192.0.2.1", "2001:db8::1", "localhost"}

\* net.ParseIP: nil for what is not an address; the family otherwise.
ParseIP(lit) ==
  IF lit = "192.0.2.1" THEN [nil |-> FALSE, v4 |-> TRUE, lit |-> lit]
  ELSE IF lit = "2001:db8::1" THEN [nil |-> FALSE, v4 |-> FALSE, lit |-> lit]
  ELSE [nil |-> TRUE, v4 |-> FALSE, lit |-> ""]

\* IP.To4 is nil for an address that is not IPv4; IP.To16 is nil for no
\* address at all.
To4IsNil(ip) == ip.nil \/ ~ip.v4
To16IsNil(ip) == ip.nil

NoOptions == [DNSListenAddress |-> "", DNSRedirectIPV4To |-> "",
              DNSRedirectIPV6To |-> "", TLSListenAddress |-> "",
              HTTPListenAddress |-> ""]

NoCfg == [RedirectIPv4To |-> NilIP, RedirectIPv6To |-> NilIP]

\* run is entered with the parsed options.
InitStart ==
  /\ startPc = "run"
  /\ options \in [DNSListenAddress : {"192.0.2.1", "localhost"},
                  DNSRedirectIPV4To : IPLiterals,
                  DNSRedirectIPV6To : IPLiterals,
                  TLSListenAddress : {"192.0.2.1", "localhost"},
                  HTTPListenAddress : {"192.0.2.1", "localhost"}]
  /\ startCfg = NoCfg
  /\ bound = {}
  /\ startErr = FALSE
  /\ loops = {}

\* The start of the program not observed.
IdleStart ==
  /\ startPc = "off"
  /\ options = NoOptions
  /\ startCfg = NoCfg
  /\ bound = {}
  /\ startErr = FALSE
  /\ loops = {}

(***************************************************************************)
(* A call of filter.MatchWildcards on its own.                             *)
(***************************************************************************)

\* The strings and patterns tried: at most MaxPatLen characters, each a
\* letter in one of its cases or one of the two wildcard characters.
MatchStrings == UNION {[1..n -> {"a", "A", "*", "?"}] : n \in 0..MaxPatLen}

\* The rule sets of no, one and two patterns.
RuleSets ==
  {<<>>} \cup {<<w>> : w \in MatchStrings}
         \cup {<<w, v>> : w \in MatchStrings, v \in MatchStrings}

InitMatch ==
  /\ mPc = "call"
  /\ mStr \in MatchStrings
  /\ mWildcards \in RuleSets
  /\ mOk = FALSE

IdleMatch ==
  /\ mPc = "off"
  /\ mStr = <<>>
  /\ mWildcards = <<>>
  /\ mOk = FALSE

(***************************************************************************)
(* A call of readResponse on its own.                                      *)
(***************************************************************************)

\* Line 180.
responseTerminator == <<"\r", "\n", "\r", "\n">>

\* What the proxy sends on the connection: at most MaxStream bytes, each one
\* of the two bytes of the terminator or another byte.
Streams == UNION {[1..n -> {"\r", "\n", "x"}] : n \in 0..MaxStream}

\* bytes.HasSuffix.
HasSuffix(b, suffix) ==
  /\ Len(b) >= Len(suffix)
  /\ SubSeq(b, Len(b) - Len(suffix) + 1, Len(b)) = suffix

InitRead ==
  /\ rPc = "loop"
  /\ rStream \in Streams
  /\ rPos = 0
  /\ rBuf = <<>>
  /\ rDecodes \in BOOLEAN
  /\ rRet = "none"

\* readResponse not called.
IdleRead ==
  /\ rPc = "off"
  /\ rStream = <<>>
  /\ rPos = 0
  /\ rBuf = <<>>
  /\ rDecodes = FALSE
  /\ rRet = "none"

(***************************************************************************)
(* A call of wrappedDialer.DialContext on its own.                         *)
(***************************************************************************)

NoRet == [conn |-> "none", err |-> "none"]

\* context.Canceled and context.DeadlineExceeded.
CtxErrors == {"Canceled", "DeadlineExceeded"}

\* Lines 240-253: the variables are declared and the goroutine is started;
\* the context may already be cancelled.
InitWd ==
  /\ wdPc = "select"
  /\ wdGo = "dial"
  /\ wdConn = "nil"
  /\ wdErr = "nil"
  /\ wdDone = FALSE
  /\ wdCtxErr \in {"nil"} \cup CtxErrors
  /\ wdCaller = "waiting"
  /\ wdSock = "none"
  /\ wdRet = NoRet

\* wrappedDialer.DialContext not called.
IdleWd ==
  /\ wdPc = "off"
  /\ wdGo = "off"
  /\ wdConn = "nil"
  /\ wdErr = "nil"
  /\ wdDone = FALSE
  /\ wdCtxErr = "nil"
  /\ wdCaller = "off"
  /\ wdSock = "none"
  /\ wdRet = NoRet

Init == InitSNI /\ IdleDNS /\ IdleHPD /\ IdleShape /\ IdleStart /\ IdleMatch /\ IdleRead /\ IdleWd

(***************************************************************************)
(* acceptLoop: Accept returns a connection and a handler goroutine is      *)
(* started for it.  The client's stream is fixed here: a head that encodes *)
(* a name (or is malformed), followed by payload.                          *)
(***************************************************************************)
\* An accept loop that calls the handler itself and accepts again when the
\* handler has returned.
AtAcceptAfterHandler(plain) ==
  /\ loop[plain] = "accepting"
  /\ \A t \in Sessions :
       (pc[t] # "idle" /\ plainHTTP[t] = plain) => pc[t] = "closed"

\* acceptLoop, lines 155-168: the loop is at l.Accept() whenever it has not
\* returned: a handler runs in a goroutine of its own.
AtAccept(plain) == loop[plain] = "accepting"

Accept(s, plain) ==
  /\ process = "running"
  /\ listener[plain] = "open"
  /\ AtAccept(plain)
  /\ pc[s] = "idle"
  /\ s <= work.clients
  /\ \A t \in 1..(s - 1) : pc[t] # "idle"
  /\ \E n \in work.lens, ok \in BOOLEAN, name \in work.names :
       /\ (~ok => work.faults /\ name = CHOOSE x \in work.names : TRUE)
       /\ clientSent' = [clientSent EXCEPT ![s] = Stream(n)]
       /\ request' = [request EXCEPT ![s] = [ok |-> ok, name |-> name]]
  /\ plainHTTP' = [plainHTTP EXCEPT ![s] = plain]
  /\ conn' = [conn EXCEPT ![s].client = [st |-> "open", cw |-> TRUE]]
  /\ pc' = [pc EXCEPT ![s] = "accepted"]
  /\ UNCHANGED <<otherVars, lifeVars, cfgVars, lastID, issued, sockRead, peekedBytes, captured,
                 serverName, ctx, dialVia, upSent, upRead, toUpstream,
                 toClient, dir>>

(***************************************************************************)
(* Helpers of handleConnection.                                            *)
(***************************************************************************)
\* net.Conn.Close: the deferred log.OnCloserError(conn).
Close(c) == IF c.st = "none" THEN c ELSE [c EXCEPT !.st = "closed"]

\* SetReadDeadline fails only on a socket that is not open.
SetReadDeadlineErr(c) == c.st # "open"

\* A readOnlyConn.Write that passes the bytes on to the socket.
readOnlyConnWriteThrough(out, p) == out \o p

\* readOnlyConn.Write: returns (0, io.ErrClosedPipe); the bytes written to
\* the client socket stay as they are.
readOnlyConnWrite(out, p) == out

\* readClientHello: the hello captured by GetConfigForClient is returned
\* whenever the callback ran, whatever its ServerName; otherwise the
\* error of the handshake.  The handshake rejects, before the callback, a
\* hello that does not parse; a server name with a trailing dot does not.
readClientHello(complete, wellFormed, name) ==
  IF complete /\ wellFormed /\ ~HasSuffixDot(name)
    THEN [err |-> FALSE, ServerName |-> name]
    ELSE [err |-> TRUE, ServerName |-> <<>>]

\* A peekHTTPHost that drops the error of http.ReadRequest.
peekHTTPHostErrDropped(complete, wellFormed, name) ==
  [err |-> FALSE, ServerName |-> name]

\* peekHTTPHost: http.ReadRequest over the tee; r.Host on success.
peekHTTPHost(complete, wellFormed, name) ==
  IF complete /\ wellFormed
    THEN [err |-> FALSE, ServerName |-> name]
    ELSE [err |-> TRUE, ServerName |-> <<>>]

\* peekServerName
peekServerName(plain, complete, wellFormed, name) ==
  IF plain THEN peekHTTPHost(complete, wellFormed, name)
  ELSE readClientHello(complete, wellFormed, name)

\* A client reader that is the bare socket, without the captured bytes.
MultiReaderNoReplay(buf, rest) == [from |-> "sock", bytes |-> rest]

\* io.MultiReader(peekedBytes, reader): the reader bytes are next read
\* from, the captured buffer first.
MultiReader(buf, rest) ==
  IF buf # <<>> THEN [from |-> "buf", bytes |-> buf]
  ELSE [from |-> "sock", bytes |-> rest]

\* A block check that returns after trying the first rule only.
blockedFirstRuleOnly(rules, host) ==
  Len(rules) > 0 /\ MatchSimple(rules[1], host)

\* The loop over p.blockRules in handleConnection.
blocked(rules, host) == \E i \in 1..Len(rules) : MatchSimple(rules[i], host)

\* A shouldForward without the "no rules: forward everything" case.
shouldForwardRulesOnly(hasProxy, rules, host) ==
  IF ~hasProxy THEN FALSE
  ELSE \E i \in 1..Len(rules) : MatchSimple(rules[i], host)

\* SNIProxy.shouldForward
shouldForward(hasProxy, rules, host) ==
  IF ~hasProxy THEN FALSE
  ELSE IF Len(rules) = 0 THEN TRUE
  ELSE \E i \in 1..Len(rules) : MatchSimple(rules[i], host)

\* SNIProxy.dial: the dialer the connection is made with.
dial(hasProxy, rules, host) ==
  IF shouldForward(hasProxy, rules, host) THEN "proxy" ELSE "direct"

\* A counter that is read but not incremented.
AtomicLoadUint64(v, delta) == v

\* atomic.AddUint64(&lastID, delta): the new value.  The counter stays far
\* below 2^64 within the bounds, so the wrap-around is not computed.
AtomicAddUint64(v, delta) == v + delta

\* A fallback port that ignores the listener.
defaultPortTLSOnly(plain) == remotePortTLS

\* The port handleConnection falls back to when the name has no port.
defaultPort(plain) == IF plain THEN remotePortPlain ELSE remotePortTLS

\* handleConnection, lines 191-200: the host and the port to connect to.
target(name, plain) ==
  LET r == SplitHostPort(name)
  IN IF ~r.err THEN [host |-> r.host, port |-> r.port]
     ELSE [host |-> name, port |-> defaultPort(plain)]

\* A deferred close of tunnel that always closes dst as a whole.
closeDstFull(c) == [c EXCEPT !.st = "closed"]

\* The deferred close of tunnel: CloseWrite when the destination has it,
\* Close otherwise.
closeDst(c) ==
  IF c.st = "closed" THEN c
  ELSE IF c.cw THEN [c EXCEPT !.st = "wclosed"]
  ELSE [c EXCEPT !.st = "closed"]

\* A wait group that was only told of one goroutine.
WaitDoneOne(s) == \E d \in Dirs : dir[s][d] \notin {"idle", "copying"}

\* wg.Wait() returns: both copy goroutines called wg.Done().
WaitDone(s) == \A d \in Dirs : dir[s][d] \notin {"idle", "copying"}

(***************************************************************************)
(* handleConnection up to the dial.                                        *)
(***************************************************************************)
\* Line 176: the read deadline is set; on an error the handler returns.
SetDeadline(s) ==
  /\ process = "running"
  /\ pc[s] = "accepted"
  /\ IF SetReadDeadlineErr(conn[s].client)
       THEN /\ pc' = [pc EXCEPT ![s] = "closed"]
            /\ conn' = [conn EXCEPT ![s].client = Close(@)]
       ELSE /\ pc' = [pc EXCEPT ![s] = "peeking"]
            /\ UNCHANGED conn
  /\ UNCHANGED <<otherVars, lifeVars, cfgVars, lastID, issued, plainHTTP, request, clientSent,
                 sockRead, peekedBytes, captured, serverName, ctx, dialVia,
                 upSent, upRead, toUpstream, toClient, dir>>

\* Lines 180-183: peekServerName reads r bytes through the tee.  The TLS
\* handshake that has read a whole hello tries to write an alert through
\* readOnlyConn.  On an error the handler returns and the deferred Close
\* closes the client socket.
Peek(s) ==
  /\ process = "running"
  /\ pc[s] = "peeking"
  /\ \E r \in 0..Len(clientSent[s]) :
       LET complete == r >= HelloLen
           timedOut == r < HelloLen /\ HelloLen <= Len(clientSent[s])
           res == peekServerName(plainHTTP[s], complete, request[s].ok,
                                 request[s].name)
       IN /\ (timedOut => work.faults)
          /\ sockRead' = [sockRead EXCEPT ![s] = r]
          /\ peekedBytes' = [peekedBytes EXCEPT ![s] = SubSeq(clientSent[s], 1, r)]
          /\ captured' = [captured EXCEPT ![s] = SubSeq(clientSent[s], 1, r)]
          /\ toClient' = [toClient EXCEPT ![s] =
               IF ~plainHTTP[s] /\ complete
                 THEN readOnlyConnWrite(@, AlertBytes) ELSE @]
          /\ IF res.err
               THEN /\ pc' = [pc EXCEPT ![s] = "closed"]
                    /\ conn' = [conn EXCEPT ![s].client = Close(@)]
                    /\ UNCHANGED serverName
               ELSE /\ pc' = [pc EXCEPT ![s] = "peek_ok"]
                    /\ serverName' = [serverName EXCEPT ![s] = res.ServerName]
                    /\ UNCHANGED conn
  /\ UNCHANGED <<otherVars, lifeVars, cfgVars, lastID, issued, plainHTTP, request, clientSent,
                 ctx, dialVia, upSent, upRead, toUpstream, dir>>

\* Lines 185-203: the deadline is removed, the name is split into host and
\* port and NewSNIContext issues the session id.
NewSNIContext(s) ==
  /\ process = "running"
  /\ pc[s] = "peek_ok"
  /\ IF SetReadDeadlineErr(conn[s].client)
       THEN /\ pc' = [pc EXCEPT ![s] = "closed"]
            /\ conn' = [conn EXCEPT ![s].client = Close(@)]
            /\ UNCHANGED <<lastID, issued, ctx>>
       ELSE LET t == target(serverName[s], plainHTTP[s])
                id == AtomicAddUint64(lastID, 1)
            IN /\ lastID' = id
               /\ issued' = Append(issued, id)
               /\ ctx' = [ctx EXCEPT ![s] =
                    [ID |-> id, RemoteHost |-> t.host,
                     RemoteAddr |-> JoinHostPort(t.host, t.port)]]
               /\ pc' = [pc EXCEPT ![s] = "rule_check"]
               /\ UNCHANGED conn
  /\ UNCHANGED <<otherVars, lifeVars, cfgVars, plainHTTP, request, clientSent, sockRead,
                 peekedBytes, captured, serverName, dialVia, upSent, upRead,
                 toUpstream, toClient, dir>>

\* Lines 205-213: the block rules are tried; a connection that is not
\* blocked goes on to p.dial.
CheckRules(s) ==
  /\ process = "running"
  /\ pc[s] = "rule_check"
  /\ IF blocked(blockRules, ctx[s].RemoteHost)
       THEN /\ pc' = [pc EXCEPT ![s] = "blocked"]
            /\ UNCHANGED dialVia
       ELSE /\ pc' = [pc EXCEPT ![s] = "dialing"]
            /\ dialVia' = [dialVia EXCEPT ![s] =
                 dial(proxyDialer, forwardRules, ctx[s].RemoteHost)]
  /\ UNCHANGED <<otherVars, lifeVars, cfgVars, lastID, issued, plainHTTP, request, clientSent,
                 sockRead, peekedBytes, captured, serverName, ctx, conn,
                 upSent, upRead, toUpstream, toClient, dir>>

\* Line 209: the blocked handler returns nil; the deferred Close closes the
\* client socket.
ReturnBlocked(s) ==
  /\ process = "running"
  /\ pc[s] = "blocked"
  /\ pc' = [pc EXCEPT ![s] = "closed"]
  /\ conn' = [conn EXCEPT ![s].client = Close(@)]
  /\ UNCHANGED <<otherVars, lifeVars, cfgVars, lastID, issued, plainHTTP, request, clientSent,
                 sockRead, peekedBytes, captured, serverName, ctx, dialVia,
                 upSent, upRead, toUpstream, toClient, dir>>

\* A dial whose error is not checked: the handler goes on without a backend.
DialReturnsUnchecked(s) ==
  /\ process = "running"
  /\ pc[s] = "dialing"
  /\ pc' = [pc EXCEPT ![s] = "dial_ok"]
  /\ UNCHANGED <<otherVars, lifeVars, cfgVars, lastID, issued, plainHTTP, request, clientSent,
                 sockRead, peekedBytes, captured, serverName, ctx, dialVia,
                 conn, upSent, upRead, toUpstream, toClient, dir>>

\* A failed dial after which the client socket is left open.
DialReturnsClientLeftOpen(s) ==
  /\ process = "running"
  /\ pc[s] = "dialing"
  /\ \/ /\ work.faults
        /\ pc' = [pc EXCEPT ![s] = "closed"]
        /\ UNCHANGED <<conn, upSent>>
     \/ \E m \in work.upLens, cw \in work.cws :
          /\ pc' = [pc EXCEPT ![s] = "dial_ok"]
          /\ conn' = [conn EXCEPT ![s].backend = [st |-> "open", cw |-> cw]]
          /\ upSent' = [upSent EXCEPT ![s] = Stream(m)]
  /\ UNCHANGED <<otherVars, lifeVars, cfgVars, lastID, issued, plainHTTP, request, clientSent,
                 sockRead, peekedBytes, captured, serverName, ctx, dialVia,
                 upRead, toUpstream, toClient, dir>>

\* Lines 213-217: the dial returns.  On an error the handler returns; on
\* success the backend socket exists, with or without CloseWrite, and the
\* upstream's stream is fixed.
DialReturns(s) ==
  /\ process = "running"
  /\ pc[s] = "dialing"
  /\ \/ /\ work.faults
        /\ pc' = [pc EXCEPT ![s] = "closed"]
        /\ conn' = [conn EXCEPT ![s].client = Close(@)]
        /\ UNCHANGED upSent
     \/ \E m \in work.upLens, cw \in work.cws :
          /\ pc' = [pc EXCEPT ![s] = "dial_ok"]
          /\ conn' = [conn EXCEPT ![s].backend = [st |-> "open", cw |-> cw]]
          /\ upSent' = [upSent EXCEPT ![s] = Stream(m)]
  /\ UNCHANGED <<otherVars, lifeVars, cfgVars, lastID, issued, plainHTTP, request, clientSent,
                 sockRead, peekedBytes, captured, serverName, ctx, dialVia,
                 upRead, toUpstream, toClient, dir>>

(***************************************************************************)
(* Tunneling: handleConnection starts two goroutines, each running         *)
(* tunnel(ctx, dst, src), and waits for both.                              *)
(***************************************************************************)
\* Lines 219-233: wg.Add(2) and the two go statements.
StartTunnel(s) ==
  /\ process = "running"
  /\ pc[s] = "dial_ok"
  /\ pc' = [pc EXCEPT ![s] = "tunneling"]
  /\ dir' = [dir EXCEPT ![s] = [d \in Dirs |-> "copying"]]
  /\ UNCHANGED <<otherVars, lifeVars, cfgVars, lastID, issued, plainHTTP, request, clientSent,
                 sockRead, peekedBytes, captured, serverName, ctx, dialVia,
                 conn, upSent, upRead, toUpstream, toClient>>

\* The bytes a read of the client socket can return.
ClientRest(s) ==
  IF conn[s].client.st = "closed" THEN <<>>
  ELSE SubSeq(clientSent[s], sockRead[s] + 1, Len(clientSent[s]))

\* The bytes a read of the backend socket can return.
BackendRest(s) ==
  IF conn[s].backend.st = "closed" THEN <<>>
  ELSE SubSeq(upSent[s], upRead[s] + 1, Len(upSent[s]))

\* The src argument of tunnel: clientReader for the direction towards the
\* upstream (line 232), backendConn for the direction towards the client
\* (line 227).
tunnelSrc(s, d) ==
  IF d = "c2u" THEN MultiReader(peekedBytes[s], ClientRest(s))
  ELSE [from |-> "sock", bytes |-> BackendRest(s)]

\* The dst argument of tunnel.
tunnelDst(d) == IF d = "c2u" THEN "backend" ELSE "client"

\* The source has reached its end of stream.
SrcEOF(s, d) ==
  IF d = "c2u"
    THEN /\ peekedBytes[s] = <<>>
         /\ sockRead[s] = Len(clientSent[s])
         /\ conn[s].client.st # "closed"
    ELSE /\ upRead[s] = Len(upSent[s])
         /\ conn[s].backend.st # "closed"

\* io.Copy moves bytes: k bytes are read from src, the first j of them are
\* written to dst.
Move(s, d, k, j) ==
  LET src == tunnelSrc(s, d)
      data == SubSeq(src.bytes, 1, j)
  IN IF d = "c2u"
       THEN /\ peekedBytes' = [peekedBytes EXCEPT ![s] =
                 IF src.from = "buf" THEN SubSeq(@, k + 1, Len(@)) ELSE @]
            /\ sockRead' = [sockRead EXCEPT ![s] =
                 IF src.from = "buf" THEN @ ELSE @ + k]
            /\ toUpstream' = [toUpstream EXCEPT ![s] = @ \o data]
            /\ UNCHANGED <<upRead, toClient>>
       ELSE /\ upRead' = [upRead EXCEPT ![s] = @ + k]
            /\ toClient' = [toClient EXCEPT ![s] = @ \o data]
            /\ UNCHANGED <<peekedBytes, sockRead, toUpstream>>

\* Line 308: one round of io.Copy, a read of k bytes and their write.
Copy(s, d) ==
  /\ process = "running"
  /\ pc[s] = "tunneling"
  /\ dir[s][d] = "copying"
  /\ conn[s][tunnelDst(d)].st = "open"
  /\ \E k \in 1..Len(tunnelSrc(s, d).bytes) : Move(s, d, k, k)
  /\ UNCHANGED <<otherVars, lifeVars, cfgVars, lastID, issued, pc, plainHTTP, request, clientSent,
                 captured, serverName, ctx, dialVia, conn, upSent, dir>>

\* Lines 289-299 and 308-314: io.Copy returns, on the end of the source,
\* on a read error or on a write error (the bytes read last are then not
\* all written), and the deferred function closes the write side of dst.
EndCopy(s, d) ==
  /\ process = "running"
  /\ pc[s] = "tunneling"
  /\ dir[s][d] = "copying"
  /\ \/ /\ SrcEOF(s, d)
        /\ dir' = [dir EXCEPT ![s][d] = "eof"]
        /\ UNCHANGED <<peekedBytes, sockRead, toUpstream, upRead, toClient>>
     \/ /\ work.faults
        /\ dir' = [dir EXCEPT ![s][d] = "rerr"]
        /\ UNCHANGED <<peekedBytes, sockRead, toUpstream, upRead, toClient>>
     \/ /\ work.faults
        /\ dir' = [dir EXCEPT ![s][d] = "werr"]
        /\ \E k \in 1..Len(tunnelSrc(s, d).bytes), j \in 0..MaxBytes :
             j < k /\ Move(s, d, k, j)
  /\ conn' = [conn EXCEPT ![s][tunnelDst(d)] = closeDst(@)]
  /\ UNCHANGED <<otherVars, lifeVars, cfgVars, lastID, issued, pc, plainHTTP, request, clientSent,
                 captured, serverName, ctx, dialVia, upSent>>

\* Lines 235-245: wg.Wait returns, the handler returns, and the deferred
\* Close calls close the backend and the client socket.
Finish(s) ==
  /\ process = "running"
  /\ pc[s] = "tunneling"
  /\ WaitDone(s)
  /\ pc' = [pc EXCEPT ![s] = "closed"]
  /\ conn' = [conn EXCEPT ![s] = [client |-> Close(@.client),
                                  backend |-> Close(@.backend)]]
  /\ UNCHANGED <<otherVars, lifeVars, cfgVars, lastID, issued, plainHTTP, request, clientSent,
                 sockRead, peekedBytes, captured, serverName, ctx, dialVia,
                 upSent, upRead, toUpstream, toClient, dir>>

(***************************************************************************)
(* The accept loops, Close and the end of the process.                     *)
(***************************************************************************)
MaxAcceptErrors == 1

\* acceptLoop, lines 156-167: Accept returns an error that does not say
\* "closed network connection".  conn is nil, and the loop starts a handler
\* goroutine on it as on every connection, and accepts again.
AcceptError(plain) ==
  /\ process = "running"
  /\ work.life
  /\ listener[plain] = "open"
  /\ AtAccept(plain)
  /\ nilHandlers[plain] < MaxAcceptErrors
  /\ nilHandlers' = [nilHandlers EXCEPT ![plain] = @ + 1]
  /\ UNCHANGED <<otherVars, cfgVars, lastID, issued, pc, plainHTTP, request,
                 clientSent, sockRead, peekedBytes, captured, serverName, ctx,
                 dialVia, conn, upSent, upRead, toUpstream, toClient, dir,
                 listener, loop, process>>

\* handleConnection, lines 174-176, on a nil clientConn: the call of
\* SetReadDeadline dereferences nil; the panic is recovered nowhere and
\* ends the process.
NilHandlerRuns(plain) ==
  /\ process = "running"
  /\ nilHandlers[plain] > 0
  /\ process' = "panicked"
  /\ UNCHANGED <<otherVars, cfgVars, lastID, issued, pc, plainHTTP, request,
                 clientSent, sockRead, peekedBytes, captured, serverName, ctx,
                 dialVia, conn, upSent, upRead, toUpstream, toClient, dir,
                 listener, loop, nilHandlers>>

\* SNIProxy.Close, called by run on SIGINT or SIGTERM: both listeners are
\* closed.
CloseProxy ==
  /\ process = "running"
  /\ work.life
  /\ \E l \in BOOLEAN : listener[l] = "open"
  /\ listener' = [l \in BOOLEAN |-> "closed"]
  /\ UNCHANGED <<otherVars, cfgVars, lastID, issued, pc, plainHTTP, request,
                 clientSent, sockRead, peekedBytes, captured, serverName, ctx,
                 dialVia, conn, upSent, upRead, toUpstream, toClient, dir,
                 loop, nilHandlers, process>>

\* An accept loop that takes the error of a closed listener for any other
\* error.
LoopExitsNever(plain) ==
  /\ process = "running"
  /\ listener[plain] = "closed"
  /\ AtAccept(plain)
  /\ nilHandlers[plain] < MaxAcceptErrors
  /\ nilHandlers' = [nilHandlers EXCEPT ![plain] = @ + 1]
  /\ UNCHANGED <<otherVars, cfgVars, lastID, issued, pc, plainHTTP, request,
                 clientSent, sockRead, peekedBytes, captured, serverName, ctx,
                 dialVia, conn, upSent, upRead, toUpstream, toClient, dir,
                 listener, loop, process>>

\* acceptLoop, lines 156-161: Accept fails with "use of closed network
\* connection" and the loop returns.
LoopExits(plain) ==
  /\ process = "running"
  /\ listener[plain] = "closed"
  /\ AtAccept(plain)
  /\ loop' = [loop EXCEPT ![plain] = "exited"]
  /\ UNCHANGED <<otherVars, cfgVars, lastID, issued, pc, plainHTTP, request,
                 clientSent, sockRead, peekedBytes, captured, serverName, ctx,
                 dialVia, conn, upSent, upRead, toUpstream, toClient, dir,
                 listener, nilHandlers, process>>

\* cmd.run returns once Close has returned, Main and main return after it,
\* and the process ends with every goroutine that is still running.
ProcessExits ==
  /\ process = "running"
  /\ \A l \in BOOLEAN : listener[l] = "closed"
  /\ process' = "exited"
  /\ UNCHANGED <<otherVars, cfgVars, lastID, issued, pc, plainHTTP, request,
                 clientSent, sockRead, peekedBytes, captured, serverName, ctx,
                 dialVia, conn, upSent, upRead, toUpstream, toClient, dir,
                 listener, loop, nilHandlers>>

(***************************************************************************)
(* The DNS proxy.  The proxy library calls requestHandler for every query  *)
(* it accepts, in place of its own resolution, and then writes ctx.Res to  *)
(* the client when the handler left one.                                   *)
(***************************************************************************)

\* filter.MatchWildcards
\* Only the first wildcard is tried.
MatchWildcardsFirstOnly(s, ws) ==
  ws # <<>> /\ MatchSimple(ws[1], s)

MatchWildcards(s, ws) ==
  \E i \in 1..Len(ws) : MatchSimple(ws[i], s)

\* dns.Msg.SetReply: a response that echoes the question of the request.
SetReply(req) ==
  [Response |-> TRUE, Rcode |-> "NOERROR", Question |-> req.Question,
   Answer |-> <<>>]

\* A rewrite that answers with whatever address is configured.
rewriteAnyTarget(qName, qType, req) ==
  LET resp == SetReply(req)
      hdr == [Name |-> qName, Rrtype |-> qType, Class |-> ClassINET,
              Ttl |-> defaultTTL]
  IN IF redirectIPv4To # NilIP
       THEN [resp EXCEPT !.Answer =
               Append(@, [Hdr |-> hdr, Addr |-> redirectIPv4To])]
     ELSE IF redirectIPv6To # NilIP
       THEN [resp EXCEPT !.Answer =
               Append(@, [Hdr |-> hdr, Addr |-> redirectIPv6To])]
     ELSE resp

\* A rewrite whose records carry no TTL.
rewriteZeroTTL(qName, qType, req) ==
  LET resp == SetReply(req)
      hdr == [Name |-> qName, Rrtype |-> qType, Class |-> ClassINET,
              Ttl |-> 0]
  IN IF qType = TypeA /\ redirectIPv4To # NilIP
       THEN [resp EXCEPT !.Answer =
               Append(@, [Hdr |-> hdr, Addr |-> redirectIPv4To])]
     ELSE IF qType = TypeAAAA /\ redirectIPv6To # NilIP
       THEN [resp EXCEPT !.Answer =
               Append(@, [Hdr |-> hdr, Addr |-> redirectIPv6To])]
     ELSE resp

\* DNSProxy.rewrite: the value it leaves in ctx.Res.
rewrite(qName, qType, req) ==
  LET resp == SetReply(req)
      hdr == [Name |-> qName, Rrtype |-> qType, Class |-> ClassINET,
              Ttl |-> defaultTTL]
  IN IF qType = TypeA /\ redirectIPv4To # NilIP
       THEN [resp EXCEPT !.Answer =
               Append(@, [Hdr |-> hdr, Addr |-> redirectIPv4To])]
     ELSE IF qType = TypeAAAA /\ redirectIPv6To # NilIP
       THEN [resp EXCEPT !.Answer =
               Append(@, [Hdr |-> hdr, Addr |-> redirectIPv6To])]
     ELSE resp

\* A handler that looks at the redirection rules before the drop rules.
requestHandlerRedirectFirst(req, res) ==
  LET qName == ToLower(req.Question[1].Name)
      qType == req.Question[1].Qtype
      domainName == TrimSuffixDot(qName)
  IN IF qType # TypeA /\ qType # TypeAAAA
       THEN [Res |-> res, resolve |-> FALSE]
     ELSE IF MatchWildcards(domainName, redirectRules)
       THEN [Res |-> rewrite(qName, qType, req), resolve |-> FALSE]
     ELSE IF MatchWildcards(domainName, dropRules)
       THEN [Res |-> NilMsg, resolve |-> FALSE]
     ELSE [Res |-> res, resolve |-> TRUE]

\* A handler that resolves the redirected names upstream before rewriting.
requestHandlerResolveAll(req, res) ==
  LET qName == ToLower(req.Question[1].Name)
      qType == req.Question[1].Qtype
      domainName == TrimSuffixDot(qName)
  IN IF qType # TypeA /\ qType # TypeAAAA
       THEN [Res |-> res, resolve |-> FALSE]
     ELSE IF MatchWildcards(domainName, dropRules)
       THEN [Res |-> NilMsg, resolve |-> FALSE]
     ELSE [Res |-> res, resolve |-> TRUE]

\* DNSProxy.requestHandler up to its return: the value it leaves in ctx.Res
\* and whether it returns through p.Resolve(ctx).
\* A handler that matches the rules against the name as it was sent.
requestHandlerCaseSensitive(req, res) ==
  LET qName == req.Question[1].Name
      qType == req.Question[1].Qtype
      domainName == TrimSuffixDot(qName)
  IN IF qType # TypeA /\ qType # TypeAAAA
       THEN [Res |-> res, resolve |-> FALSE]
     ELSE IF MatchWildcards(domainName, dropRules)
       THEN [Res |-> NilMsg, resolve |-> FALSE]
     ELSE IF MatchWildcards(domainName, redirectRules)
       THEN [Res |-> rewrite(qName, qType, req), resolve |-> FALSE]
     ELSE [Res |-> res, resolve |-> TRUE]

requestHandler(req, res) ==
  LET qName == ToLower(req.Question[1].Name)
      qType == req.Question[1].Qtype
      domainName == TrimSuffixDot(qName)
  IN IF qType # TypeA /\ qType # TypeAAAA
       THEN [Res |-> res, resolve |-> FALSE]
     ELSE IF MatchWildcards(domainName, dropRules)
       THEN [Res |-> NilMsg, resolve |-> FALSE]
     ELSE IF MatchWildcards(domainName, redirectRules)
       THEN [Res |-> rewrite(qName, qType, req), resolve |-> FALSE]
     ELSE [Res |-> res, resolve |-> TRUE]

\* The library accepts a query and builds its DNSContext: Req is the query,
\* Res is nil.
Receive(q) ==
  /\ dnsPc = "idle"
  /\ served < MaxQueries
  /\ dnsPc' = "handler"
  /\ Req' = q
  /\ Res' = NilMsg
  /\ forwarded' = <<>>
  /\ upstreamRes' = NilMsg
  /\ sent' = <<>>
  /\ UNCHANGED <<notDNS, dropRules, redirectRules, redirectIPv4To,
                 redirectIPv6To, served>>

\* requestHandler runs.  On its last branch it calls p.Resolve, which sends
\* ctx.Req to the upstream.
RequestHandler ==
  /\ dnsPc = "handler"
  /\ LET h == requestHandler(Req, Res)
     IN /\ Res' = h.Res
        /\ IF h.resolve
             THEN /\ forwarded' = Append(forwarded, Req)
                  /\ dnsPc' = "resolving"
             ELSE /\ forwarded' = forwarded
                  /\ dnsPc' = "respond"
  /\ UNCHANGED <<notDNS, dropRules, redirectRules, redirectIPv4To,
                 redirectIPv6To, served, Req, upstreamRes, sent>>

\* p.Resolve returns: the upstream answered and its response is ctx.Res, or
\* the exchange failed and ctx.Res is a server failure.
Resolve ==
  /\ dnsPc = "resolving"
  /\ \/ \E m \in UpstreamAnswers(Req) :
          /\ upstreamRes' = m
          /\ Res' = m
     \/ /\ upstreamRes' = NilMsg
        /\ Res' = ServFail(Req)
  /\ dnsPc' = "respond"
  /\ UNCHANGED <<notDNS, dropRules, redirectRules, redirectIPv4To,
                 redirectIPv6To, served, Req, forwarded, sent>>

\* The library's respond: ctx.Res is written to the client, and nothing is
\* written when it is nil.
Respond ==
  /\ dnsPc = "respond"
  /\ sent' = IF Res = NilMsg THEN sent ELSE Append(sent, Res)
  /\ served' = served + 1
  /\ dnsPc' = "idle"
  /\ UNCHANGED <<notDNS, dropRules, redirectRules, redirectIPv4To,
                 redirectIPv6To, Req, Res, forwarded, upstreamRes>>

(***************************************************************************)
(* HTTPProxyDialer.DialContext and its guard goroutine.  The caller's      *)
(* context may be cancelled between any two steps.                         *)
(***************************************************************************)

\* stopGuard, lines 131-136: the first call closes stopGuardEvent, a later
\* call does nothing.
stopGuard ==
  IF stopGuardOnce
    THEN UNCHANGED stopVars
    ELSE /\ stopGuardOnce' = TRUE
         /\ stopGuardEvent' = TRUE
         /\ stopCloses' = stopCloses + 1

\* Lines 96-100: only TCP networks are dialed.
CheckNetwork(network) ==
  /\ hpdPc = "called"
  /\ IF network \in {"tcp", "tcp4", "tcp6"}
       THEN hpdPc' = "dialing" /\ ret' = ret
       ELSE hpdPc' = "returned" /\ ret' = "nil"
  /\ UNCHANGED <<notHPD, sock, ctxDone, cancelledAt, stopVars,
                 guard, guardErr, proxyResp, respBuf, reqWritten>>

\* Lines 102-137: d.next.DialContext returns.  On an error DialContext
\* returns it; otherwise the socket is open, the guard goroutine is started
\* and stopGuard is deferred.
NextDialContext ==
  /\ hpdPc = "dialing"
  /\ \/ /\ hpdPc' = "returned"
        /\ ret' = "nil"
        /\ UNCHANGED <<sock, guard, proxyResp>>
     \/ /\ sock' = "open"
        /\ proxyResp' \in ProxyResponses
        /\ guard' = "select"
        /\ hpdPc' = "write"
        /\ ret' = ret
  /\ UNCHANGED <<notHPD, ctxDone, cancelledAt, stopVars,
                 guardErr, respBuf, reqWritten>>

\* An error return of DialContext after the socket was opened that leaves
\* the socket as it is.
ReturnErrorLeaky ==
  /\ hpdPc' = "returned"
  /\ ret' = "nil"
  /\ sock' = sock
  /\ stopGuard

\* An error return of DialContext after the socket was opened:
\* log.OnCloserError closes the socket, nil is returned and the deferred
\* stopGuard closes stopGuardEvent.
ReturnError ==
  /\ hpdPc' = "returned"
  /\ ret' = "nil"
  /\ sock' = "closed"
  /\ stopGuard

\* Lines 139-155: the CONNECT request is written.  A write to a socket that
\* was closed fails; a write to an open one may fail.
WriteRequest ==
  /\ hpdPc = "write"
  /\ \/ /\ sock = "open"
        /\ reqWritten' = TRUE
        /\ hpdPc' = "read"
        /\ UNCHANGED <<sock, ret, stopVars>>
     \/ /\ ReturnError
        /\ reqWritten' = reqWritten
  /\ UNCHANGED <<notHPD, ctxDone, cancelledAt, guard, guardErr,
                 proxyResp, respBuf>>

\* readResponse, lines 191-204: one byte is read and stored, or the read
\* fails: it does on a closed socket and may on an open one.
ReadByte ==
  /\ hpdPc = "read"
  /\ respBuf < RespLen
  /\ \/ /\ sock = "open"
        /\ respBuf' = respBuf + 1
        /\ UNCHANGED <<hpdPc, sock, ret, stopVars>>
     \/ /\ ReturnError
        /\ respBuf' = respBuf
  /\ UNCHANGED <<notHPD, ctxDone, cancelledAt, guard, guardErr,
                 proxyResp, reqWritten>>

\* Lines 206-211 and 157-170: the head is complete.  It is decoded and its
\* status compared with 200; on success stopGuard is called.
CheckResponse ==
  /\ hpdPc = "read"
  /\ respBuf = RespLen
  /\ IF proxyResp.wellFormed /\ proxyResp.StatusCode = StatusOK
       THEN /\ stopGuard
            /\ hpdPc' = "wait_guard"
            /\ UNCHANGED <<sock, ret>>
       ELSE ReturnError
  /\ UNCHANGED <<notHPD, ctxDone, cancelledAt, guard, guardErr,
                 proxyResp, respBuf, reqWritten>>

\* A DialContext that looks at guardErr without waiting for the guard.
ReceiveGuardErrNoWait ==
  /\ hpdPc = "wait_guard"
  /\ ret' = IF guardErr = "err" THEN "nil" ELSE "conn"
  /\ hpdPc' = "returned"
  /\ stopGuard
  /\ UNCHANGED <<notHPD, sock, ctxDone, cancelledAt,
                 guard, guardErr, proxyResp, respBuf, reqWritten>>

\* Lines 172-176: the guard's verdict is received: the context's error, or
\* nothing from the closed channel, and then the connection is returned.
\* The deferred stopGuard runs at the return.
ReceiveGuardErr ==
  /\ hpdPc = "wait_guard"
  /\ guardErr # "empty"
  /\ ret' = IF guardErr = "err" THEN "nil" ELSE "conn"
  /\ hpdPc' = "returned"
  /\ stopGuard
  /\ UNCHANGED <<notHPD, sock, ctxDone, cancelledAt,
                 guard, guardErr, proxyResp, respBuf, reqWritten>>

\* Lines 122-124: the guard's select takes the stopGuardEvent case.
GuardStop ==
  /\ guard = "select"
  /\ stopGuardEvent
  /\ guardErr' = "closed"
  /\ guard' = "done"
  /\ UNCHANGED <<notHPD, hpdPc, sock, ctxDone, cancelledAt,
                 stopVars, proxyResp, respBuf, reqWritten, ret>>

\* A guard that reports the cancellation and leaves the socket open.
GuardCancelNoClose ==
  /\ guard = "select"
  /\ ctxDone
  /\ sock' = sock
  /\ guard' = "closing"
  /\ UNCHANGED <<notHPD, hpdPc, ctxDone, cancelledAt, stopVars,
                 guardErr, proxyResp, respBuf, reqWritten, ret>>

\* Lines 125-126: the guard's select takes the ctx.Done case and closes the
\* socket.
GuardCancel ==
  /\ guard = "select"
  /\ ctxDone
  /\ sock' = "closed"
  /\ guard' = "closing"
  /\ UNCHANGED <<notHPD, hpdPc, ctxDone, cancelledAt, stopVars,
                 guardErr, proxyResp, respBuf, reqWritten, ret>>

\* A guard whose channel guardErr has no buffer: the send waits for the
\* receive of line 172.
GuardSendUnbuffered ==
  /\ guard = "closing"
  /\ hpdPc = "wait_guard"
  /\ guardErr = "empty"
  /\ guardErr' = "err"
  /\ guard' = "done"
  /\ UNCHANGED <<notHPD, hpdPc, sock, ctxDone, cancelledAt,
                 stopVars, proxyResp, respBuf, reqWritten, ret>>

\* Line 127: the guard sends ctx.Err() on guardErr, a channel with a buffer
\* of one (line 120): the send goes through when the buffer is empty.
GuardSend ==
  /\ guard = "closing"
  /\ guardErr = "empty"
  /\ guardErr' = "err"
  /\ guard' = "done"
  /\ UNCHANGED <<notHPD, hpdPc, sock, ctxDone, cancelledAt,
                 stopVars, proxyResp, respBuf, reqWritten, ret>>

\* The caller cancels the context, or its deadline passes.
Cancel ==
  /\ hpdPc # "off"
  /\ ~ctxDone
  /\ ctxDone' = TRUE
  /\ cancelledAt' = hpdPc
  /\ UNCHANGED <<notHPD, hpdPc, sock, stopVars, guard, guardErr,
                 proxyResp, respBuf, reqWritten, ret>>

(***************************************************************************)
(* shapeio and golang.org/x/time/rate, as tunnel uses them.                *)
(***************************************************************************)
Min(a, b) == IF a < b THEN a ELSE b

\* rate.NewLimiter: no tokens and the zero time as the last update.
NewLimiter == [set |-> TRUE, fresh |-> TRUE, credit |-> 0, last |-> 0]

\* Limiter.advance: the credit at time t.  It grows by the time elapsed
\* since the last update and is capped by the burst; since the zero time
\* more than a full burst has elapsed.
advance(lim, t) ==
  IF lim.fresh THEN burstLimit * period
  ELSE Min(burstLimit * period, lim.credit + (t - lim.last))

\* Limiter.reserveN: n tokens are taken at time t if the wait for them is at
\* most maxWait; the limiter afterwards and the time the tokens are there.
reserveN(lim, t, n, maxWait) ==
  LET c == advance(lim, t) - n * period
      wait == IF c < 0 THEN 0 - c ELSE 0
      ok == n <= burstLimit /\ wait <= maxWait
  IN [ok |-> ok,
      lim |-> IF ok THEN [set |-> TRUE, fresh |-> FALSE, credit |-> c,
                          last |-> t]
              ELSE lim,
      timeToAct |-> t + wait]

\* Limiter.AllowN: n tokens are taken if they are there now.
AllowN(lim, t, n) == reserveN(lim, t, n, 0).lim

\* A SetRateLimit that leaves the initial burst in the bucket.
SetRateLimitFullBucket(t) == NewLimiter

\* Reader.SetRateLimit and Writer.SetRateLimit: a new limiter whose initial
\* burst is spent.
SetRateLimit(t) == AllowN(NewLimiter, t, burstLimit)

\* A WaitN that takes the tokens and returns at once.
WaitNNoDelay(lim, t, n) ==
  LET r == reserveN(lim, t, n, burstLimit * period)
  IN [r EXCEPT !.timeToAct = t]

\* Limiter.WaitN with context.Background(): the tokens are reserved and the
\* call returns when they are there; it fails for more than a burst.
WaitN(lim, t, n) == reserveN(lim, t, n, burstLimit * period)

\* tunnel, lines 301-306: the reader and the writer get a limiter each when
\* a rate is configured.
TunnelSetRateLimit ==
  /\ shPc = "start"
  /\ shPc' = "read"
  /\ IF period > 0
       THEN /\ readerLim' = SetRateLimit(now)
            /\ writerLim' = SetRateLimit(now)
            /\ created' = now
       ELSE UNCHANGED <<readerLim, writerLim, created>>
  /\ UNCHANGED <<notShape, now, period, srcLeft, chunk, moved, waitUntil,
                 copyErr, signalled, signalledInWait>>

\* Reader.Read: the source's Read returns an error (io.EOF at the end of
\* the stream) or n bytes; with a limiter WaitN(n) follows.
ReaderRead ==
  /\ shPc = "read"
  /\ \/ /\ srcLeft = 0
        /\ shPc' = "done"
        /\ UNCHANGED <<copyErr, srcLeft, chunk, readerLim, waitUntil>>
     \/ /\ shPc' = "done"
        /\ copyErr' = "read"
        /\ UNCHANGED <<srcLeft, chunk, readerLim, waitUntil>>
     \/ \E n \in 1..Min(BufSize, srcLeft) :
          /\ chunk' = n
          /\ srcLeft' = srcLeft - n
          /\ IF ~readerLim.set
               THEN /\ shPc' = "write"
                    /\ UNCHANGED <<copyErr, readerLim, waitUntil>>
               ELSE LET w == WaitN(readerLim, now, n)
                    IN IF w.ok
                         THEN /\ readerLim' = w.lim
                              /\ waitUntil' = w.timeToAct
                              /\ shPc' = "rwait"
                              /\ copyErr' = copyErr
                         ELSE /\ shPc' = "done"
                              /\ copyErr' = "limiter"
                              /\ UNCHANGED <<readerLim, waitUntil>>
  /\ UNCHANGED <<notShape, now, period, created, writerLim, moved, signalled,
                 signalledInWait>>

\* The reader's WaitN returns: its delay has passed.
ReaderWaitReturns ==
  /\ shPc = "rwait"
  /\ now >= waitUntil
  /\ shPc' = "write"
  /\ UNCHANGED <<notShape, now, period, created, readerLim, writerLim, srcLeft,
                 chunk, moved, waitUntil, copyErr, signalled, signalledInWait>>

\* Writer.Write: the bytes are written to the destination, or the write
\* fails; with a limiter WaitN(n) follows the write.
WriterWrite ==
  /\ shPc = "write"
  /\ \/ /\ shPc' = "done"
        /\ copyErr' = "write"
        /\ UNCHANGED <<moved, chunk, writerLim, waitUntil>>
     \/ /\ moved' = moved + chunk
        /\ chunk' = 0
        /\ IF ~writerLim.set
             THEN /\ shPc' = "read"
                  /\ UNCHANGED <<copyErr, writerLim, waitUntil>>
             ELSE LET w == WaitN(writerLim, now, chunk)
                  IN IF w.ok
                       THEN /\ writerLim' = w.lim
                            /\ waitUntil' = w.timeToAct
                            /\ shPc' = "wwait"
                            /\ copyErr' = copyErr
                       ELSE /\ shPc' = "done"
                            /\ copyErr' = "limiter"
                            /\ UNCHANGED <<writerLim, waitUntil>>
  /\ UNCHANGED <<notShape, now, period, created, readerLim, srcLeft, signalled,
                 signalledInWait>>

\* The writer's WaitN returns: its delay has passed.
WriterWaitReturns ==
  /\ shPc = "wwait"
  /\ now >= waitUntil
  /\ shPc' = "read"
  /\ UNCHANGED <<notShape, now, period, created, readerLim, writerLim, srcLeft,
                 chunk, moved, waitUntil, copyErr, signalled, signalledInWait>>

\* Time passes.
Tick ==
  /\ shPc # "off"
  /\ now < MaxTime
  /\ now' = now + 1
  /\ UNCHANGED <<notShape, shPc, period, created, readerLim, writerLim, srcLeft,
                 chunk, moved, waitUntil, copyErr, signalled, signalledInWait>>

\* cmd.run, line 72: the process is told to stop.  Nothing hands this on to
\* the tunnels: their waits are made with context.Background().
Signal ==
  /\ shPc # "off"
  /\ ~signalled
  /\ signalled' = TRUE
  /\ signalledInWait' = (shPc \in {"rwait", "wwait"} /\ now < waitUntil)
  /\ UNCHANGED <<notShape, shPc, now, period, created, readerLim, writerLim,
                 srcLeft, chunk, moved, waitUntil, copyErr>>

(***************************************************************************)
(* cmd.run: the configuration is converted, the DNS proxy is created and   *)
(* started, then the SNI proxy.                                            *)
(***************************************************************************)

\* A conversion without the final check for a redirection address.
toDNSProxyConfigUnchecked(o) ==
  LET ip4 == ParseIP(o.DNSRedirectIPV4To)
      ip6 == ParseIP(o.DNSRedirectIPV6To)
  IN IF ParseIP(o.DNSListenAddress).nil
       THEN [end |-> "panic", cfg |-> NoCfg]
     ELSE IF o.DNSRedirectIPV4To # "" /\ (ip4.nil \/ To4IsNil(ip4))
       THEN [end |-> "fatal", cfg |-> NoCfg]
     ELSE IF o.DNSRedirectIPV6To # "" /\ (ip6.nil \/ To16IsNil(ip6))
       THEN [end |-> "fatal", cfg |-> NoCfg]
     ELSE [end |-> "ok",
           cfg |-> [RedirectIPv4To |-> ip4.lit, RedirectIPv6To |-> ip6.lit]]

\* toDNSProxyConfig: the configuration, or the way the process ends: check
\* panics on a listen address that does not parse, log.Fatalf exits.
toDNSProxyConfig(o) ==
  LET ip4 == ParseIP(o.DNSRedirectIPV4To)
      ip6 == ParseIP(o.DNSRedirectIPV6To)
  IN IF ParseIP(o.DNSListenAddress).nil
       THEN [end |-> "panic", cfg |-> NoCfg]
     ELSE IF o.DNSRedirectIPV4To # "" /\ (ip4.nil \/ To4IsNil(ip4))
       THEN [end |-> "fatal", cfg |-> NoCfg]
     ELSE IF o.DNSRedirectIPV6To # "" /\ (ip6.nil \/ To16IsNil(ip6))
       THEN [end |-> "fatal", cfg |-> NoCfg]
     ELSE IF ip4.lit = NilIP /\ ip6.lit = NilIP
       THEN [end |-> "fatal", cfg |-> NoCfg]
     ELSE [end |-> "ok",
           cfg |-> [RedirectIPv4To |-> ip4.lit, RedirectIPv6To |-> ip6.lit]]

\* run, line 61: newDNSProxy.  dnsproxy.New may fail on its own (an upstream
\* it cannot use), which check turns into a panic.
NewDNSProxy ==
  /\ startPc = "run"
  /\ LET r == toDNSProxyConfig(options)
     IN IF r.end # "ok"
          THEN startPc' = r.end /\ startCfg' = startCfg
          ELSE /\ startCfg' = r.cfg
               /\ startPc' \in {"dns_created", "panic"}
  /\ UNCHANGED <<notStart, options, bound, startErr, loops>>

\* run, lines 62-63: the DNS proxy binds its listeners, or check panics.
StartDNSProxy ==
  /\ startPc = "dns_created"
  /\ \/ startPc' = "dns_started" /\ bound' = bound \cup {"dns"}
     \/ startPc' = "panic" /\ bound' = bound
  /\ UNCHANGED <<notStart, options, startCfg, startErr, loops>>

\* run, line 65: newSNIProxy.  toSNIProxyConfig exits on a listen address
\* that does not parse; sniproxy.New may fail on the forward proxy.
NewSNIProxy ==
  /\ startPc = "dns_started"
  /\ IF ParseIP(options.TLSListenAddress).nil
        \/ ParseIP(options.HTTPListenAddress).nil
       THEN startPc' = "fatal"
       ELSE startPc' \in {"sni_created", "panic"}
  /\ UNCHANGED <<notStart, options, startCfg, bound, startErr, loops>>

\* SNIProxy.Start, lines 111-130: the TLS listener is bound, then the HTTP
\* listener; an error of either is returned at once; after both, the two
\* accept loops are started.
StartSNIProxy ==
  /\ startPc = "sni_created"
  /\ \/ startErr' = TRUE /\ bound' = bound /\ loops' = loops
     \/ startErr' = TRUE /\ bound' = bound \cup {"tls"} /\ loops' = loops
     \/ /\ startErr' = FALSE
        /\ bound' = bound \cup {"tls", "http"}
        /\ loops' = {"tls", "http"}
  /\ startPc' = "sni_start_returned"
  /\ UNCHANGED <<notStart, options, startCfg>>

\* run, line 67: check panics on the error of Start.
CheckSNIStart ==
  /\ startPc = "sni_start_returned"
  /\ startPc' = IF startErr THEN "panic" ELSE "running"
  /\ UNCHANGED <<notStart, options, startCfg, bound, startErr, loops>>

Next ==
  \/ \E s \in Sessions, plain \in BOOLEAN : Accept(s, plain)
  \/ \E s \in Sessions : SetDeadline(s)
  \/ \E s \in Sessions : Peek(s)
  \/ \E s \in Sessions : NewSNIContext(s)
  \/ \E s \in Sessions : CheckRules(s)
  \/ \E s \in Sessions : ReturnBlocked(s)
  \/ \E s \in Sessions : DialReturns(s)
  \/ \E s \in Sessions : StartTunnel(s)
  \/ \E s \in Sessions, d \in Dirs : Copy(s, d)
  \/ \E s \in Sessions, d \in Dirs : EndCopy(s, d)
  \/ \E s \in Sessions : Finish(s)
  \/ \E plain \in BOOLEAN : AcceptError(plain)
  \/ \E plain \in BOOLEAN : NilHandlerRuns(plain)
  \/ CloseProxy
  \/ \E plain \in BOOLEAN : LoopExits(plain)
  \/ ProcessExits

Spec == Init /\ [][Next]_vars

NextDNS ==
  \/ \E q \in Queries : Receive(q)
  \/ RequestHandler
  \/ Resolve
  \/ Respond

\* The DNS proxy alone.
InitSpecDNS == IdleSNI /\ InitDNS /\ IdleHPD /\ IdleShape /\ IdleStart /\ IdleMatch /\ IdleRead /\ IdleWd

SpecDNS == InitSpecDNS /\ [][NextDNS]_vars

NextHPD ==
  \/ \E network \in Networks : CheckNetwork(network)
  \/ NextDialContext
  \/ WriteRequest
  \/ ReadByte
  \/ CheckResponse
  \/ ReceiveGuardErr
  \/ GuardStop
  \/ GuardCancel
  \/ GuardSend
  \/ Cancel

\* One call of DialContext alone.
InitSpecHPD == IdleSNI /\ IdleDNS /\ InitHPD /\ IdleShape /\ IdleStart /\ IdleMatch /\ IdleRead /\ IdleWd

SpecHPD == InitSpecHPD /\ [][NextHPD]_vars

\* The same with the scheduling of the guard goroutine: a goroutine that can
\* run does run.
SpecHPDFair ==
  InitSpecHPD /\ [][NextHPD]_vars
    /\ WF_vars(GuardStop) /\ WF_vars(GuardCancel) /\ WF_vars(GuardSend)

NextShape ==
  \/ TunnelSetRateLimit
  \/ ReaderRead
  \/ ReaderWaitReturns
  \/ WriterWrite
  \/ WriterWaitReturns
  \/ Tick
  \/ Signal

\* One rate-limited copy direction alone.
InitSpecShape == IdleSNI /\ IdleDNS /\ IdleHPD /\ InitShape /\ IdleStart /\ IdleMatch /\ IdleRead /\ IdleWd

SpecShape == InitSpecShape /\ [][NextShape]_vars

NextStart ==
  \/ NewDNSProxy
  \/ StartDNSProxy
  \/ NewSNIProxy
  \/ StartSNIProxy
  \/ CheckSNIStart

\* The start of the program alone.
InitSpecStart == IdleSNI /\ IdleDNS /\ IdleHPD /\ IdleShape /\ InitStart /\ IdleMatch /\ IdleRead /\ IdleWd

SpecStart == InitSpecStart /\ [][NextStart]_vars

\* A call of MatchWildcards returns.
CallMatchWildcards ==
  /\ mPc = "call"
  /\ mOk' = MatchWildcards(mStr, mWildcards)
  /\ mPc' = "returned"
  /\ UNCHANGED <<notMatch, mStr, mWildcards>>

NextMatch == CallMatchWildcards

\* The calls of MatchWildcards alone.
InitSpecMatch ==
  IdleSNI /\ IdleDNS /\ IdleHPD /\ IdleShape /\ IdleStart /\ InitMatch
    /\ IdleWd /\ IdleRead

SpecMatch == InitSpecMatch /\ [][NextMatch]_vars

(***************************************************************************)
(* readResponse.  A Read that returns no byte and no error (line 197)      *)
(* changes nothing and is a stuttering step.                               *)
(***************************************************************************)

\* A loop body that reads into a buffer of two bytes.
ReadLoopTwoBytes ==
  /\ rPc = "loop"
  /\ ~HasSuffix(rBuf, responseTerminator)
  /\ \/ \E n \in 1..2 :
          /\ rPos + n <= Len(rStream)
          /\ (n = 1 => rPos + 1 = Len(rStream))
          /\ rPos' = rPos + n
          /\ rBuf' = rBuf \o SubSeq(rStream, rPos + 1, rPos + n)
          /\ UNCHANGED <<rPc, rRet>>
     \/ /\ rPc' = "returned"
        /\ rRet' = "err"
        /\ UNCHANGED <<rPos, rBuf>>
  /\ UNCHANGED <<notRead, rStream, rDecodes>>

\* Lines 190-204, one turn of the loop: the terminator is not yet at the end
\* of respBuf; one byte is read from the connection and stored, or the Read
\* fails (a timeout, a reset, the end of the stream).
ReadLoop ==
  /\ rPc = "loop"
  /\ ~HasSuffix(rBuf, responseTerminator)
  /\ \/ /\ rPos < Len(rStream)
        /\ rPos' = rPos + 1
        /\ rBuf' = Append(rBuf, rStream[rPos + 1])
        /\ UNCHANGED <<rPc, rRet>>
     \/ /\ rPc' = "returned"
        /\ rRet' = "err"
        /\ UNCHANGED <<rPos, rBuf>>
  /\ UNCHANGED <<notRead, rStream, rDecodes>>

\* Lines 190 and 207-212: the terminator ends respBuf; the head is decoded
\* from respBuf, not from the connection.
DecodeResponse ==
  /\ rPc = "loop"
  /\ HasSuffix(rBuf, responseTerminator)
  /\ rPc' = "returned"
  /\ rRet' = IF rDecodes THEN "resp" ELSE "err"
  /\ UNCHANGED <<notRead, rStream, rPos, rBuf, rDecodes>>

NextRead ==
  \/ ReadLoop
  \/ DecodeResponse

\* The calls of readResponse alone.
InitSpecRead ==
  IdleSNI /\ IdleDNS /\ IdleHPD /\ IdleShape /\ IdleStart /\ IdleMatch
    /\ InitRead /\ IdleWd

SpecRead == InitSpecRead /\ [][NextRead]_vars

(***************************************************************************)
(* wrappedDialer.DialContext and its goroutine.  conn and err are shared   *)
(* by the two without synchronisation when the ctx.Done case is taken: the *)
(* accesses are interleaved here in every order.                           *)
(***************************************************************************)

\* Line 247: wd.d.Dial returns a connection or an error and the goroutine
\* assigns both variables.
WdDialReturns ==
  /\ wdGo = "dial"
  /\ \/ wdSock' = "open" /\ wdConn' = "conn" /\ wdErr' = "nil"
     \/ wdSock' = wdSock /\ wdConn' = "nil" /\ wdErr' = "dial"
  /\ wdGo' = "close_done"
  /\ UNCHANGED <<notWd, wdPc, wdDone, wdCtxErr, wdCaller, wdRet>>

\* Line 248.
WdCloseDone ==
  /\ wdGo = "close_done"
  /\ wdDone' = TRUE
  /\ wdGo' = "check"
  /\ UNCHANGED <<notWd, wdPc, wdConn, wdErr, wdCtxErr, wdCaller, wdSock,
                 wdRet>>

\* Lines 250-252: the connection is closed when the context is cancelled by
\* now.
WdCheckCtx ==
  /\ wdGo = "check"
  /\ wdSock' = IF wdConn # "nil" /\ wdCtxErr # "nil" THEN "closed" ELSE wdSock
  /\ wdGo' = "done"
  /\ UNCHANGED <<notWd, wdPc, wdConn, wdErr, wdDone, wdCtxErr, wdCaller,
                 wdRet>>

\* Lines 255-257: the select takes the ctx.Done case and err is assigned.
WdSelectCtx ==
  /\ wdPc = "select"
  /\ wdCtxErr # "nil"
  /\ wdErr' = wdCtxErr
  /\ wdPc' = "return"
  /\ UNCHANGED <<notWd, wdGo, wdConn, wdDone, wdCtxErr, wdCaller, wdSock,
                 wdRet>>

\* Line 258: the select takes the done case.
WdSelectDone ==
  /\ wdPc = "select"
  /\ wdDone
  /\ wdPc' = "return"
  /\ UNCHANGED <<notWd, wdGo, wdConn, wdErr, wdDone, wdCtxErr, wdCaller,
                 wdSock, wdRet>>

\* Line 261: conn and err are read and returned.
WdReturn ==
  /\ wdPc = "return"
  /\ wdRet' = [conn |-> wdConn, err |-> wdErr]
  /\ wdPc' = "returned"
  /\ UNCHANGED <<notWd, wdGo, wdConn, wdErr, wdDone, wdCtxErr, wdCaller,
                 wdSock>>

\* The caller cancels the context, or its deadline passes.
WdCancel ==
  /\ wdPc # "off"
  /\ wdCtxErr = "nil"
  /\ wdCtxErr' \in CtxErrors
  /\ UNCHANGED <<notWd, wdCaller, wdPc, wdGo, wdConn, wdErr, wdDone, wdSock,
                 wdRet>>

\* HTTPProxyDialer.DialContext, lines 102-105: on an error the caller
\* returns and the connection is dropped; otherwise it goes on with it.
WdCallerChecks ==
  /\ wdPc = "returned"
  /\ wdCaller = "waiting"
  /\ wdCaller' = IF wdRet.err # "nil" THEN "failed" ELSE "proceeds"
  /\ UNCHANGED <<notWd, wdPc, wdGo, wdConn, wdErr, wdDone, wdCtxErr, wdSock,
                 wdRet>>

NextWd ==
  \/ WdDialReturns
  \/ WdCloseDone
  \/ WdCheckCtx
  \/ WdSelectCtx
  \/ WdSelectDone
  \/ WdReturn
  \/ WdCancel
  \/ WdCallerChecks

\* One call of wrappedDialer.DialContext alone.
InitSpecWd ==
  IdleSNI /\ IdleDNS /\ IdleHPD /\ IdleShape /\ IdleStart /\ IdleMatch
    /\ IdleRead /\ InitWd

SpecWd == InitSpecWd /\ [][NextWd]_vars

TypeOK ==
  /\ lastID \in Nat
  /\ \A s \in Sessions :
       /\ pc[s] \in {"idle", "accepted", "peeking", "peek_ok", "rule_check",
                      "blocked", "dialing", "dial_ok", "tunneling", "closed"}
       /\ dialVia[s] \in {"none", "direct", "proxy"}
       /\ \A d \in Dirs : dir[s][d] \in {"idle", "copying", "eof", "rerr", "werr"}

(***************************************************************************)
(* Properties.                                                             *)
(***************************************************************************)
Terminal(x) == x \in {"eof", "rerr", "werr"}
Other(d) == IF d = "c2u" THEN "u2c" ELSE "c2u"
PeekDone(s) == pc[s] \notin {"idle", "accepted", "peeking"}

\* The rule set has a pattern the host of the session matches.
HostMatches(rules, s) ==
  \E i \in 1..Len(rules) : MatchSimple(rules[i], ctx[s].RemoteHost)

\* C1: the bytes written to the upstream connection are at every moment a
\* prefix of the bytes captured by the peek followed by the rest of the
\* client's stream, which is a prefix of what the client sent; when the
\* direction ends on the client's end of stream they are all of it.
C1_UpstreamReceivesClientBytes ==
  \A s \in Sessions :
    LET rest == SubSeq(clientSent[s], Len(captured[s]) + 1, Len(clientSent[s]))
    IN /\ IsPrefix(captured[s], clientSent[s])
       /\ IsPrefix(toUpstream[s], captured[s] \o rest)
       /\ IsPrefix(toUpstream[s], clientSent[s])
       /\ (dir[s]["c2u"] = "eof" => toUpstream[s] = clientSent[s])

\* A session replayed captured bytes and then streamed further bytes.
C1_Witness ==
  \E s \in Sessions :
    /\ dir[s]["c2u"] = "eof"
    /\ captured[s] # <<>>
    /\ Len(captured[s]) < Len(clientSent[s])
    /\ toUpstream[s] = clientSent[s]

\* C2: the bytes written to the client socket are a prefix of the bytes
\* read from the session's backend socket; before tunneling, the sniffing
\* handshake included, nothing is written to the client.
C2_ClientReceivesOnlyUpstreamBytes ==
  \A s \in Sessions :
    /\ IsPrefix(toClient[s], SubSeq(upSent[s], 1, upRead[s]))
    /\ (pc[s] \notin {"tunneling", "closed"} => toClient[s] = <<>>)

\* A TLS session whose handshake read a whole hello delivered upstream
\* bytes to the client.
C2_Witness ==
  \E s \in Sessions :
    /\ ~plainHTTP[s]
    /\ Len(captured[s]) >= HelloLen
    /\ toClient[s] # <<>>
    /\ toClient[s] = upSent[s]

\* C3: a session whose host matches a block rule never dials, has no
\* backend socket, and ends with its client socket closed.
C3_BlockedNeverDials ==
  \A s \in Sessions :
    (ctx[s] # NoCtx /\ HostMatches(blockRules, s)) =>
      /\ pc[s] \in {"rule_check", "blocked", "closed"}
      /\ dialVia[s] = "none"
      /\ conn[s].backend.st = "none"
      /\ (pc[s] = "closed" => conn[s].client.st = "closed")

\* A blocked session, closed, whose host also matches a forward rule of a
\* process with a forward proxy.
C3_Witness ==
  \E s \in Sessions :
    /\ pc[s] = "closed"
    /\ ctx[s] # NoCtx
    /\ HostMatches(blockRules, s)
    /\ proxyDialer
    /\ HostMatches(forwardRules, s)
    /\ conn[s].client.st = "closed"

\* C4: a session that dials uses the proxy dialer exactly when a forward
\* proxy is configured and the forward rules are empty or match the host.
C4_ForwardDecision ==
  \A s \in Sessions :
    dialVia[s] # "none" =>
      /\ dialVia[s] = "proxy" <=>
           (proxyDialer /\ (forwardRules = <<>> \/ HostMatches(forwardRules, s)))
      /\ (proxyDialer /\ forwardRules = <<>> => dialVia[s] = "proxy")
      /\ (~proxyDialer => dialVia[s] = "direct")

\* With a proxy and forward rules, a host that matches none dials directly.
C4_Witness ==
  \E s \in Sessions :
    /\ dialVia[s] = "direct"
    /\ proxyDialer
    /\ forwardRules # <<>>
    /\ conn[s].backend.st = "open"

\* C5: the step that ends one copy direction closes the write side of its
\* destination (all of it only when the destination has no CloseWrite),
\* leaves the other socket and the other direction as they are, and, when
\* it half-closes, leaves the bytes the other direction can read.
C5_HalfClose ==
  [][\A s \in Sessions : \A d \in Dirs :
       (dir[s][d] = "copying" /\ dir'[s][d] # "copying") =>
         LET side == tunnelDst(d)
             o == Other(d)
         IN /\ Terminal(dir'[s][d])
            /\ conn'[s][side].st =
                 (IF conn[s][side].cw THEN "wclosed" ELSE "closed")
            /\ conn'[s][tunnelDst(o)] = conn[s][tunnelDst(o)]
            /\ dir'[s][o] = dir[s][o]
            /\ pc'[s] = "tunneling"
            /\ (conn[s][side].cw => tunnelSrc(s, o)' = tunnelSrc(s, o))]_vars

\* The client direction has ended, the backend is half-closed and the
\* other direction still has upstream bytes to deliver.
C5_Witness ==
  \E s \in Sessions :
    /\ Terminal(dir[s]["c2u"])
    /\ conn[s].backend.st = "wclosed"
    /\ dir[s]["u2c"] = "copying"
    /\ BackendRest(s) # <<>>
    /\ ENABLED Copy(s, "u2c")

\* C6: a session that tunneled is closed only when both directions have
\* ended, and then both sockets are closed; while a direction is copying
\* a socket is fully closed only by the fallback of the ended direction
\* that writes to it.
C6_ClosedAfterBothDirections ==
  \A s \in Sessions :
    /\ (pc[s] = "closed" /\ \E d \in Dirs : dir[s][d] # "idle") =>
         /\ \A d \in Dirs : Terminal(dir[s][d])
         /\ conn[s].client.st = "closed"
         /\ conn[s].backend.st = "closed"
    /\ \A d \in Dirs :
         (conn[s][tunnelDst(d)].st = "closed"
           /\ \E e \in Dirs : dir[s][e] = "copying") =>
             (~conn[s][tunnelDst(d)].cw /\ Terminal(dir[s][d]))

\* A session that moved bytes both ways has returned.
C6_Witness ==
  \E s \in Sessions :
    /\ pc[s] = "closed"
    /\ \A d \in Dirs : Terminal(dir[s][d])
    /\ toUpstream[s] # <<>>
    /\ toClient[s] # <<>>

\* C7: the ids are issued in strictly increasing order, and the contexts
\* of two sessions never carry the same id.
C7_SessionIdsUniqueIncreasing ==
  /\ \A i, j \in 1..Len(issued) : i < j => issued[i] < issued[j]
  /\ \A s, t \in Sessions :
       (s # t /\ ctx[s] # NoCtx /\ ctx[t] # NoCtx) => ctx[s].ID # ctx[t].ID
  /\ \A s \in Sessions :
       ctx[s] # NoCtx => \E i \in 1..Len(issued) : issued[i] = ctx[s].ID

\* Two handlers that ran concurrently both hold an id.
C7_Witness ==
  \E s, t \in Sessions :
    /\ s # t
    /\ ctx[s] # NoCtx /\ ctx[t] # NoCtx
    /\ pc[s] = "tunneling" /\ pc[t] = "rule_check"
    /\ ctx[s].ID > ctx[t].ID

\* The transitions of the session state machine.
Transitions ==
  { <<"idle", "accepted">>, <<"accepted", "peeking">>,
    <<"peeking", "peek_ok">>, <<"peeking", "closed">>,
    <<"peek_ok", "rule_check">>,
    <<"rule_check", "blocked">>, <<"rule_check", "dialing">>,
    <<"blocked", "closed">>,
    <<"dialing", "dial_ok">>, <<"dialing", "closed">>,
    <<"dial_ok", "tunneling">>, <<"tunneling", "closed">> }

\* C8: every step of a session is one of the transitions of the state
\* machine; a dial is begun only in a session that peeked a name, holds a
\* context and is not blocked; copying is begun only over a backend socket
\* the dial returned.
C8_StateMachine ==
  [][\A s \in Sessions :
       /\ (pc'[s] # pc[s] => <<pc[s], pc'[s]>> \in Transitions)
       /\ (dialVia'[s] # "none" =>
             /\ pc'[s] \in {"dialing", "dial_ok", "tunneling", "closed"}
             /\ ctx'[s] # NoCtx
             /\ ~HostMatches(blockRules, s)')
       /\ ((\E d \in Dirs : dir'[s][d] # "idle") =>
             /\ pc'[s] \in {"tunneling", "closed"}
             /\ dialVia'[s] # "none"
             /\ conn'[s].backend.st # "none")]_vars

\* A session went all the way to tunneling.
C8_Witness ==
  \E s \in Sessions :
    /\ pc[s] = "tunneling"
    /\ dialVia[s] # "none"
    /\ \A d \in Dirs : dir[s][d] = "copying"

\* C9: a TLS connection whose ClientHello has no server name ends the peek
\* with the client closed, without a context and without a dial.
C9_NoSNIIsPeekFailure ==
  \A s \in Sessions :
    (~plainHTTP[s] /\ request[s].ok /\ request[s].name = <<>> /\ PeekDone(s)) =>
      /\ pc[s] = "closed"
      /\ conn[s].client.st = "closed"
      /\ ctx[s] = NoCtx
      /\ dialVia[s] = "none"

\* The name has the form host:port: a last colon followed by the decimal
\* digits of a 16-bit number, after a host without colon or in brackets.
HostPortForm(raw) ==
  \E i \in 1..Len(raw) :
    /\ raw[i] = ":"
    /\ i < Len(raw)
    /\ \A j \in (i + 1)..Len(raw) : IsDigit(raw[j])
    /\ DecVal(SubSeq(raw, i + 1, Len(raw))) <= 65535
    /\ \/ \A j \in 1..(i - 1) : raw[j] \notin {":", "[", "]"}
       \/ /\ i >= 3 /\ raw[1] = "[" /\ raw[i - 1] = "]"
          /\ \A j \in 2..(i - 2) : raw[j] \notin {"[", "]"}

FormHost(raw) ==
  LET i == CHOOSE k \in 1..Len(raw) :
             raw[k] = ":" /\ \A j \in (k + 1)..Len(raw) : raw[j] # ":"
  IN IF raw[1] = "[" THEN SubSeq(raw, 2, i - 2) ELSE SubSeq(raw, 1, i - 1)

FormPort(raw) ==
  LET i == CHOOSE k \in 1..Len(raw) :
             raw[k] = ":" /\ \A j \in (k + 1)..Len(raw) : raw[j] # ":"
  IN DecVal(SubSeq(raw, i + 1, Len(raw)))

\* C10: the address of a session carries the port embedded in the peeked
\* name, and its host is the host part, when the name has the form
\* host:port; otherwise it carries 443 on the TLS listener and 80 on the
\* plain-HTTP listener, and the host is the name as peeked.
C10_UpstreamPort ==
  \A s \in Sessions :
    ctx[s] # NoCtx =>
      LET raw == serverName[s]
          addr == SplitHostPort(ctx[s].RemoteAddr)
      IN /\ ~addr.err
         /\ IF HostPortForm(raw)
              THEN /\ addr.port = FormPort(raw)
                   /\ ctx[s].RemoteHost = FormHost(raw)
              ELSE /\ addr.port = (IF plainHTTP[s] THEN 80 ELSE 443)
                   /\ ctx[s].RemoteHost = raw
         /\ addr.host = TrimBrackets(ctx[s].RemoteHost)

\* A plain-HTTP session whose Host header names port 8 dials port 8.
C10_Witness ==
  \E s \in Sessions :
    /\ plainHTTP[s]
    /\ serverName[s] = <<"a", ":", "8">>
    /\ ctx[s].RemoteHost = <<"a">>
    /\ ctx[s].RemoteAddr = <<"a", ":", "8">>
    /\ dialVia[s] # "none"

\* C11: the host stored in the context of a session, which is the host the
\* block and forward rules are matched against and the host dialed, is
\* the peeked name in lower case and without a trailing dot.
C11_HostIsNormalised ==
  \A s \in Sessions :
    ctx[s] # NoCtx =>
      /\ ctx[s].RemoteHost = ToLower(ctx[s].RemoteHost)
      /\ ~HasSuffixDot(ctx[s].RemoteHost)
      /\ ctx[s].RemoteHost =
           ToLower(TrimSuffixDot(target(serverName[s], plainHTTP[s]).host))

\* The peek of the session failed: the head did not arrive whole before
\* the deadline or the end of the stream, or it does not parse.
PeekFailed(s) ==
  /\ PeekDone(s)
  /\ \/ Len(captured[s]) < HelloLen
     \/ ~request[s].ok
     \/ (~plainHTTP[s] /\ HasSuffixDot(request[s].name))

\* C12: a session whose peek failed is closed with its client socket
\* closed, has no context and no dial; the ids issued are as many as the
\* contexts created.
C12_PeekFailureClosesClient ==
  /\ \A s \in Sessions :
       PeekFailed(s) =>
         /\ pc[s] = "closed"
         /\ conn[s].client.st = "closed"
         /\ ctx[s] = NoCtx
         /\ dialVia[s] = "none"
         /\ conn[s].backend.st = "none"
  /\ Len(issued) = Cardinality({s \in Sessions : ctx[s] # NoCtx})
  /\ lastID = Len(issued)

\* A malformed HTTP request was read whole and the connection closed.
C12_Witness ==
  \E s \in Sessions :
    /\ plainHTTP[s]
    /\ ~request[s].ok
    /\ Len(captured[s]) >= HelloLen
    /\ pc[s] = "closed"
    /\ conn[s].client.st = "closed"
    /\ lastID = 0

\* The dial of the session returned an error.
DialFailed(s) ==
  /\ dialVia[s] # "none"
  /\ pc[s] # "dialing"
  /\ conn[s].backend.st = "none"

\* C13: a session whose dial failed is closed with its client socket
\* closed; no copy direction was started and no byte was written to the
\* client or to an upstream.
C13_DialFailureClosesClient ==
  \A s \in Sessions :
    DialFailed(s) =>
      /\ pc[s] = "closed"
      /\ conn[s].client.st = "closed"
      /\ \A d \in Dirs : dir[s][d] = "idle"
      /\ toClient[s] = <<>>
      /\ toUpstream[s] = <<>>

\* A dial through the forward proxy failed.
C13_Witness ==
  \E s \in Sessions :
    /\ DialFailed(s)
    /\ dialVia[s] = "proxy"
    /\ pc[s] = "closed"
    /\ conn[s].client.st = "closed"

(***************************************************************************)
(* The DNS proxy's properties.                                             *)
(***************************************************************************)

\* The query being served, as the rules see it.
Asked == Req # NilMsg
QType == Req.Question[1].Qtype
DomainName == TrimSuffixDot(ToLower(Req.Question[1].Name))
IsAddressQuery == Asked /\ QType \in {TypeA, TypeAAAA}
DropMatches == Asked /\ MatchWildcards(DomainName, dropRules)
RedirectMatches == Asked /\ MatchWildcards(DomainName, redirectRules)
QueryDone == Asked /\ dnsPc = "idle"

\* C14: an A/AAAA query whose name matches the drop rules is never answered
\* and never sent to the upstream, whether or not a redirection rule matches
\* it as well.
C14_DropIsSilent ==
  (IsAddressQuery /\ DropMatches) =>
    /\ sent = <<>>
    /\ forwarded = <<>>
    /\ upstreamRes = NilMsg
    /\ Res = NilMsg
    /\ dnsPc # "resolving"

C14_Witness ==
  /\ QueryDone
  /\ IsAddressQuery /\ DropMatches /\ RedirectMatches
  /\ sent = <<>> /\ forwarded = <<>>

\* The redirection address configured for the type of the query.
TargetFor(qType) == IF qType = TypeA THEN redirectIPv4To ELSE redirectIPv6To

\* The response rewrite is expected to send for the query: the question
\* echoed and one record of the query's type with the configured address.
IsRedirection(r) ==
  /\ r.Response /\ r.Rcode = "NOERROR"
  /\ r.Question = Req.Question
  /\ Len(r.Answer) = 1
  /\ r.Answer[1].Hdr.Name = ToLower(Req.Question[1].Name)
  /\ r.Answer[1].Hdr.Rrtype = QType
  /\ r.Answer[1].Hdr.Class = ClassINET
  /\ r.Answer[1].Hdr.Ttl = 60
  /\ r.Answer[1].Addr = TargetFor(QType)
  /\ r.Answer[1].Addr # NilIP

\* C15 as stated: every A/AAAA query whose name matches a redirect rule is
\* answered with exactly one record of the query's type, carrying the
\* configured target, TTL 60 and class IN.
C15_EveryRedirectMatchAnswered ==
  (QueryDone /\ IsAddressQuery /\ RedirectMatches) =>
    (Len(sent) = 1 /\ IsRedirection(sent[1]))

\* C15: an A/AAAA query whose name matches a redirect rule and no drop rule,
\* and for whose type a redirection address is configured, is answered with
\* exactly one response holding exactly one record: of the query's type, with
\* the configured address, TTL 60 and class IN; it is not sent upstream.
C15_RedirectAnswer ==
  (QueryDone /\ IsAddressQuery /\ RedirectMatches /\ ~DropMatches
     /\ TargetFor(QType) # NilIP) =>
    /\ Len(sent) = 1 /\ IsRedirection(sent[1])
    /\ forwarded = <<>>

C15_Witness ==
  /\ QueryDone /\ IsAddressQuery /\ RedirectMatches /\ ~DropMatches
  /\ QType = TypeAAAA
  /\ Len(sent) = 1 /\ Len(sent[1].Answer) = 1
  /\ sent[1].Answer[1].Addr = redirectIPv6To
  /\ redirectIPv6To # NilIP

\* C16 as stated: every redirect-matching query for a type without a
\* configured address is answered locally with the question echoed and an
\* empty answer section, and is not forwarded.
C16_EveryUnconfiguredTypeAnswered ==
  (QueryDone /\ IsAddressQuery /\ RedirectMatches
     /\ TargetFor(QType) = NilIP) =>
    /\ sent = <<SetReply(Req)>>
    /\ forwarded = <<>>

\* C16: a query that matches a redirect rule and no drop rule, for a type
\* without a configured redirection address, is answered locally with a
\* reply that echoes the question and has an empty answer section, and it is
\* not forwarded upstream.
C16_EmptyAnswerWhenTargetUnset ==
  (QueryDone /\ IsAddressQuery /\ RedirectMatches /\ ~DropMatches
     /\ TargetFor(QType) = NilIP) =>
    /\ Len(sent) = 1
    /\ sent[1].Response /\ sent[1].Rcode = "NOERROR"
    /\ sent[1].Question = Req.Question
    /\ sent[1].Answer = <<>>
    /\ forwarded = <<>> /\ upstreamRes = NilMsg

C16_Witness ==
  /\ QueryDone /\ QType = TypeA /\ RedirectMatches /\ ~DropMatches
  /\ redirectIPv4To = NilIP /\ redirectIPv6To # NilIP
  /\ Len(sent) = 1 /\ sent[1].Answer = <<>>

\* C17: a query whose first question is neither A nor AAAA is sent to the
\* upstream unchanged and the upstream's response is what the client
\* receives, whatever the drop and redirect rules are.
C17_OtherTypesForwarded ==
  (QueryDone /\ ~IsAddressQuery) =>
    /\ forwarded = <<Req>>
    /\ upstreamRes # NilMsg => sent = <<upstreamRes>>
    /\ sent # <<>>

\* C18: an A/AAAA query whose name matches neither a drop rule nor a
\* redirect rule is sent to the upstream as it was received, once, and the
\* upstream's response is what the client receives; and whenever an A/AAAA
\* query is sent to the upstream, no drop rule and no redirect rule matches
\* its name.
C18_UnmatchedResolvedUpstream ==
  /\ (QueryDone /\ IsAddressQuery /\ ~DropMatches /\ ~RedirectMatches) =>
       /\ forwarded = <<Req>>
       /\ Len(sent) = 1
       /\ upstreamRes # NilMsg => sent = <<upstreamRes>>
  /\ (IsAddressQuery /\ (forwarded # <<>> \/ upstreamRes # NilMsg)) =>
       (~DropMatches /\ ~RedirectMatches)

C18_Witness ==
  /\ QueryDone /\ IsAddressQuery /\ ~DropMatches /\ ~RedirectMatches
  /\ dropRules # <<>> /\ redirectRules # <<>>
  /\ forwarded = <<Req>>
  /\ upstreamRes # NilMsg /\ Len(upstreamRes.Answer) = 1
  /\ sent = <<upstreamRes>>

(***************************************************************************)
(* The HTTP CONNECT dialer's properties.                                   *)
(***************************************************************************)

\* The positions of DialContext between the opening of the socket and its
\* return.
Handshake == {"write", "read", "wait_guard"}

\* C19: DialContext returns a connection only when the proxy's response was
\* read whole, decoded, and had status 200; and whenever it returns nil after
\* the socket was opened, the socket is closed.
C19_ConnOnlyOn200 ==
  /\ ret = "conn" =>
       /\ reqWritten
       /\ respBuf = RespLen
       /\ proxyResp.wellFormed
       /\ proxyResp.StatusCode = 200
  /\ (ret = "nil" /\ sock # "none") => sock = "closed"
  /\ hpdPc = "returned" <=> ret # "none"

C19_Witness ==
  /\ hpdPc = "returned" /\ ret = "nil"
  /\ proxyResp.wellFormed /\ proxyResp.StatusCode = 200 /\ respBuf = RespLen
  /\ guardErr = "err" /\ sock = "closed"

Limited == period > 0 /\ shPc \notin {"off", "start"}

\* C21: with a rate configured, at every moment the bytes moved to the
\* destination, at one byte per period, fit in the time elapsed since the
\* limiters were created; so a copy of N bytes does not complete before N
\* periods have passed.
C21_RateBoundsBytesMoved ==
  Limited =>
    /\ moved * period <= now - created
    /\ (shPc = "done" /\ copyErr = "none") => srcLeft = 0

C21_Witness ==
  /\ Limited /\ period = 2 /\ created > 0
  /\ shPc = "done" /\ copyErr = "none"
  /\ moved > 1
  /\ now - created = moved * period

\* Nothing was read from the source yet.
FirstReadPending == shPc = "read" /\ moved = 0 /\ chunk = 0

\* C22: after SetRateLimit the buckets of the reader and of the writer hold
\* no token but those accrued since, none at the moment of creation; and the
\* first chunk of n bytes is handed on no earlier than n periods after
\* SetRateLimit.
C22_NoInitialBurst ==
  Limited =>
    /\ FirstReadPending =>
         /\ ~readerLim.fresh /\ ~writerLim.fresh
         /\ advance(readerLim, now) = now - created
         /\ advance(writerLim, now) = now - created
    /\ (shPc = "rwait" /\ moved = 0) => waitUntil >= created + chunk * period
    /\ (shPc = "write" /\ moved = 0) => now >= created + chunk * period

C22_Witness ==
  /\ Limited /\ period = 2
  /\ shPc = "write" /\ moved = 0 /\ chunk = 2
  /\ now = created + chunk * period

\* C23: a copy whose rate-limiter wait was pending when the cancellation
\* signal came does not run to its normal end: it terminates with an error.
C23_SignalInterruptsWait ==
  (signalledInWait /\ shPc = "done") => copyErr # "none"

(***************************************************************************)
(* The properties of the accept loops, of Close and of the shutdown.       *)
(***************************************************************************)
Listeners == BOOLEAN
InFlight(s) == pc[s] \notin {"idle", "closed"}

\* A handler is started by the loop of the listener in this step: on a
\* connection, or on the nil connection of a failed Accept.
HandlerStarted(plain) ==
  \/ nilHandlers'[plain] > nilHandlers[plain]
  \/ \E s \in Sessions :
       pc[s] = "idle" /\ pc'[s] # "idle" /\ plainHTTP'[s] = plain

\* C24: once a listener is closed its accept loop starts no handler any
\* more; the loop returns only because its listener was closed, it returns
\* without ending the process, and a loop that returned stays so.
C24_ClosedListenerEndsLoop ==
  [][\A plain \in Listeners :
       /\ listener[plain] = "closed" => ~HandlerStarted(plain)
       /\ (loop[plain] = "accepting" /\ loop'[plain] = "exited") =>
            (listener[plain] = "closed" /\ process' = "running")
       /\ loop[plain] = "exited" =>
            (loop'[plain] = "exited" /\ ~HandlerStarted(plain))]_vars

C24_Witness ==
  /\ \A plain \in Listeners :
       listener[plain] = "closed" /\ loop[plain] = "exited"
  /\ process = "running"
  /\ \A plain \in Listeners : nilHandlers[plain] = 0
  /\ \E s \in Sessions : pc[s] = "closed"

\* C25: a failed Accept starts no handler on a connection that does not
\* exist and nothing makes the process panic; the loop goes on accepting.
C25_AcceptErrorIsHarmless ==
  /\ process # "panicked"
  /\ \A plain \in Listeners : nilHandlers[plain] = 0

\* C26: the step that closes the listeners changes nothing of any session;
\* the accept loops end only after it; and a session that was in flight when
\* the listeners were closed goes on afterwards, until its own handler is
\* through: nothing ends it from outside.
C26_CloseLeavesSessionsRunning ==
  [][/\ (\E l \in Listeners : listener[l] = "open" /\ listener'[l] = "closed")
          => /\ \A l \in Listeners : listener'[l] = "closed"
             /\ pc' = pc /\ conn' = conn /\ dir' = dir
             /\ toUpstream' = toUpstream /\ toClient' = toClient
     /\ \A s \in Sessions :
          (InFlight(s) /\ \A l \in Listeners : listener[l] = "closed")
            => process' # "exited"]_vars

(***************************************************************************)
(* The properties of the start of the program.                             *)
(***************************************************************************)

\* C27: with neither redirection address given the program ends in
\* toDNSProxyConfig, and no listener is ever bound; wherever a listener is
\* bound or the program runs, a redirection address is configured.
C27_NoTargetNoStart ==
  /\ (options.DNSRedirectIPV4To = "" /\ options.DNSRedirectIPV6To = "") =>
       /\ bound = {}
       /\ startPc \in {"run", "fatal", "panic"}
  /\ (bound # {} \/ startPc = "running") =>
       (startCfg.RedirectIPv4To # NilIP \/ startCfg.RedirectIPv6To # NilIP)

C27_Witness ==
  /\ options.DNSRedirectIPV4To = "" /\ options.DNSRedirectIPV6To = ""
  /\ ~ParseIP(options.DNSListenAddress).nil
  /\ startPc = "fatal" /\ bound = {}

(***************************************************************************)
(* The properties of filter.MatchWildcards.                                *)
(***************************************************************************)

HasWildcardChar(w) == \E i \in 1..Len(w) : w[i] \in {"*", "?"}

Literal(ws) == \A i \in 1..Len(ws) : ~HasWildcardChar(ws[i])

\* C28: for a rule set whose patterns hold neither '*' nor '?' the result is
\* true exactly when the string equals one of the patterns, character for
\* character; for the empty rule set it is false.
C28_LiteralRulesMatchByEquality ==
  mPc = "returned" =>
    /\ Literal(mWildcards) =>
         (mOk <=> \E i \in 1..Len(mWildcards) : mWildcards[i] = mStr)
    /\ mWildcards = <<>> => ~mOk

C28_Witness ==
  /\ mPc = "returned"
  /\ mWildcards = << <<"A">>, <<"a">> >>
  /\ mStr = <<"a">>
  /\ mOk

(***************************************************************************)
(* The drop rules of the tunnel engine.                                    *)
(***************************************************************************)

\* The handler of session s is past the rule check with a host that one of
\* the drop rules matches.
DropMatched(s) ==
  /\ pc[s] \notin {"idle", "accepted", "peeking", "peek_ok", "rule_check"}
  /\ ctx[s] # NoCtx
  /\ MatchWildcards(ctx[s].RemoteHost, connDropRules)

\* C29: a connection whose host matches a drop rule is not tunneled: no
\* backend is dialed for it and no byte of it is relayed; it is held and then
\* closed.
C29_DropRuleNeverTunnels ==
  \A s \in Sessions :
    DropMatched(s) =>
      /\ pc[s] \notin {"dialing", "dial_ok", "tunneling"}
      /\ conn[s].backend.st = "none"
      /\ toUpstream[s] = <<>>

(***************************************************************************)
(* The accept loop and the handlers it starts.                             *)
(***************************************************************************)

\* The handler of session t, accepted on the given listener, is in the peek,
\* dial or tunneling phase.
BlockedOn(t, plain) ==
  /\ plainHTTP[t] = plain
  /\ pc[t] \in {"peeking", "dialing", "tunneling"}

\* The next client that may connect.
NextClient(s) ==
  /\ pc[s] = "idle"
  /\ s <= work.clients
  /\ \A t \in 1..(s - 1) : pc[t] # "idle"

\* The step of a handler that waits for nothing outside the process.
HandlerStep(s) ==
  \/ SetDeadline(s)
  \/ NewSNIContext(s)
  \/ CheckRules(s)
  \/ ReturnBlocked(s)
  \/ StartTunnel(s)

\* C30: while a handler started by a listener's loop is in the peek, dial or
\* tunneling phase, the loop accepts the next connection of that listener,
\* and every other handler that has a step to take can take it.
C30_AcceptLoopNeverWaits ==
  \A plain \in Listeners, t \in Sessions :
    (/\ BlockedOn(t, plain)
     /\ process = "running"
     /\ listener[plain] = "open"
     /\ loop[plain] = "accepting") =>
      \A s \in Sessions \ {t} :
        /\ NextClient(s) => ENABLED Accept(s, plain)
        /\ pc[s] \in {"accepted", "peek_ok", "rule_check", "blocked",
                      "dial_ok"} => ENABLED HandlerStep(s)

\* A second connection of the same listener is being tunneled while the
\* handler of the first is still in its peek.
C30_Witness ==
  \E plain \in Listeners, t \in Sessions, s \in Sessions :
    /\ t < s
    /\ BlockedOn(t, plain)
    /\ pc[t] = "peeking"
    /\ plainHTTP[s] = plain
    /\ pc[s] = "tunneling"
    /\ process = "running"

(***************************************************************************)
(* The end of the guard goroutine of DialContext.                          *)
(***************************************************************************)

\* DialContext has returned after it started the guard.
ReturnedWithGuard == hpdPc = "returned" /\ guard # "none"

\* C31: stopGuardEvent is closed at most once, and is closed when
\* DialContext has returned after starting the guard; the guard's send finds
\* room in guardErr; and once DialContext has returned the guard ends.
C31_GuardTerminates ==
  /\ [](stopCloses <= 1)
  /\ [](ReturnedWithGuard => (stopGuardEvent /\ stopCloses = 1))
  /\ [](guard = "closing" => ENABLED GuardSend)
  /\ (ReturnedWithGuard ~> guard = "done")

\* DialContext returned an error while the guard had yet to send, and the
\* guard has ended.
C31_Witness ==
  /\ hpdPc = "returned" /\ ret = "nil"
  /\ guard = "done" /\ guardErr = "err"
  /\ respBuf < RespLen
  /\ stopCloses = 1

(***************************************************************************)
(* The properties of readResponse.                                         *)
(***************************************************************************)

\* The terminator ends the first k bytes of the stream.
TerminatorEndsAt(k) == HasSuffix(SubSeq(rStream, 1, k), responseTerminator)

\* C32: readResponse has read from the connection the bytes of respBuf and
\* no others; it never reads past an occurrence of the terminator; and when
\* it returns a response the bytes read end with the first occurrence of the
\* terminator, so that all bytes after it are still on the connection.
C32_ReadsUpToTerminatorOnly ==
  rPc # "off" =>
    /\ rBuf = SubSeq(rStream, 1, rPos)
    /\ \A k \in 0..(rPos - 1) : ~TerminatorEndsAt(k)
    /\ rRet = "resp" => TerminatorEndsAt(rPos)

\* The proxy sent bytes after the head and they are unread at the return.
C32_Witness ==
  /\ rPc = "returned" /\ rRet = "resp"
  /\ rPos = Len(responseTerminator) + 1
  /\ Len(rStream) > rPos

(***************************************************************************)
(* The name the DNS decision is taken on.                                  *)
(***************************************************************************)

\* Two names differ at most in letter case and in a trailing dot.
SameNameUpToCaseAndDot(n1, n2) ==
  LET l1 == ToLower(n1)
      l2 == ToLower(n2)
  IN l1 = l2 \/ l1 = l2 \o <<".">> \/ l2 = l1 \o <<".">>

\* The decision a result of the handler stands for.
DecisionOf(h) ==
  IF h.resolve THEN "forward"
  ELSE IF h.Res = NilMsg THEN "drop"
  ELSE "redirect"

\* The decision the rules give for a name in lower case without its dot.
DecisionOn(name) ==
  IF MatchWildcards(name, dropRules) THEN "drop"
  ELSE IF MatchWildcards(name, redirectRules) THEN "redirect"
  ELSE "forward"

\* The handler decides on an A or AAAA query in this step.
DecidesAddressQuery ==
  /\ dnsPc = "handler" /\ dnsPc' # "handler"
  /\ Req.Question[1].Qtype \in {TypeA, TypeAAAA}

\* The decision taken in this step.
DecisionTaken ==
  IF dnsPc' = "resolving" THEN "forward"
  ELSE IF Res' = NilMsg THEN "drop"
  ELSE "redirect"

\* C33: the decision taken for an A or AAAA query is the one the rules give
\* for its name in lower case without the trailing dot, and it is the
\* decision for every query of the same type whose name differs from it only
\* in letter case or in the trailing dot.
C33_DecisionIgnoresCaseAndDot ==
  [][DecidesAddressQuery =>
       /\ DecisionTaken
            = DecisionOn(TrimSuffixDot(ToLower(Req.Question[1].Name)))
       /\ \A q \in Queries :
            (/\ q.Question[1].Qtype = Req.Question[1].Qtype
             /\ SameNameUpToCaseAndDot(q.Question[1].Name,
                                       Req.Question[1].Name))
              => DecisionOf(requestHandler(q, NilMsg)) = DecisionTaken]_vars

\* A query in upper case was dropped by a rule in lower case.
C33_Witness ==
  /\ dnsPc = "respond"
  /\ Req.Question # <<>>
  /\ Req.Question[1].Name = <<"A", ".">>
  /\ Req.Question[1].Qtype = TypeA
  /\ Res = NilMsg
  /\ MatchWildcards(<<"a">>, dropRules)

(***************************************************************************)
(* The connection DialContext returns and the guard.                       *)
(***************************************************************************)

\* The guard took the ctx.Done case: it closed the socket, or is past it.
GuardTookCancel == guard = "closing" \/ guardErr = "err"

\* C34: a connection DialContext has returned is open and its guard ended
\* through the stop event; and when the guard took the cancellation case,
\* DialContext returns no connection but an error (ret = "nil").
C34_NoGuardClosedConnReturned ==
  /\ ret = "conn" =>
       /\ sock = "open"
       /\ ~GuardTookCancel
       /\ guard = "done"
  /\ (hpdPc = "returned" /\ GuardTookCancel) => ret = "nil"

\* The context was cancelled after the proxy had accepted the request, the
\* guard still took the cancellation case, and no connection was returned.
C34_Witness ==
  /\ hpdPc = "returned" /\ ret = "nil"
  /\ cancelledAt = "wait_guard"
  /\ guardErr = "err" /\ sock = "closed"

(***************************************************************************)
(* The sockets of wrappedDialer.DialContext.                               *)
(***************************************************************************)

\* DialContext has returned and its goroutine has ended.
WdQuiet == wdPc = "returned" /\ wdGo = "done"

\* C35: once DialContext has returned and its goroutine has ended, a return
\* with the context's error has left no open socket, and a connection
\* returned with a nil error is open.
C35_NoLeakNoClosedConn ==
  WdQuiet =>
    /\ wdRet.err \in CtxErrors => wdSock # "open"
    /\ (wdRet.conn = "conn" /\ wdRet.err = "nil") => wdSock = "open"

(***************************************************************************)
(* The return of SNIProxy.Start.                                           *)
(***************************************************************************)

SNIListeners == {"tls", "http"}

\* C36: when Start has returned an error, neither listener is bound and no
\* accept loop runs; when it has returned nil, both listeners are bound and
\* both accept loops were started.
C36_StartAllOrNothing ==
  startPc = "sni_start_returned" =>
    IF startErr
      THEN bound \cap SNIListeners = {} /\ loops = {}
      ELSE SNIListeners \subseteq bound /\ loops = SNIListeners

=============================================================================
